---- MODULE Spec2Model ----
(***************************************************************************)
(* A model of the entity-component engine of raylib-ecs: entities owning   *)
(* a component map and an ordered child list (src/ecs/utils.py Entity),    *)
(* access-scoped proxies (EntityProxy), the criteria predicates and the    *)
(* Query traversal (get / filter / check of src/ecs/utils.py, call /       *)
(* decorate of src/ecs.py).                                                *)
(*                                                                         *)
(* Python objects are modelled by handles: heap[n] is the Entity object    *)
(* with identity n, heap[0] the context entity the Query is bound to.      *)
(* A component instance is a record carrying its class in the field type.  *)
(***************************************************************************)
EXTENDS Integers, Sequences, FiniteSets, TLC

VARIABLES heap, last, wrapper, proxy

vars == <<heap, last, wrapper, proxy>>

\* Bound of the model: number of entities below the context entity.
MaxEntities == 3

\* Bound of the model: number of entities below the context entity in the
\* behaviours that work on proxies.
MaxProxyEntities == 1

\* Bound of the model: largest Position.x a move_position handler may produce
\* (every Position of the scenes can be moved by the offset at least once).
MaxCoord == 90

----------------------------------------------------------------------------
(* Values *)

\* Python's None.
None == [type |-> "NoneType"]

\* The outcome of a call: the exception class it raised ("none": it returned),
\* whether warnings.warn was called, and the value returned.
Returned(value) == [raised |-> "none", warned |-> FALSE, value |-> value]

Warned(value) == [raised |-> "none", warned |-> TRUE, value |-> value]

Raised(exception) == [raised |-> exception, warned |-> FALSE, value |-> None]

\* component.__class__.__name__.lower() / component.__name__.lower(): the key
\* of the component map, for the component classes of the test package.
Lower == [Position |-> "position", Sprite |-> "sprite", Item |-> "item",
          Spatial |-> "spatial", Collision |-> "collision"]

\* A class object; its type is the metaclass (Component derives from ABC).
Class(name) == [type |-> "ABCMeta", __name__ |-> name]

ComponentNames == DOMAIN Lower

\* type(component)
TypeOf(component) == Class(component.type)

Position(x, y) == [type |-> "Position", x |-> x, y |-> y]

Sprite(texture) == [type |-> "Sprite", texture |-> texture]

Item(kind, quantity, rarity) ==
    [type |-> "Item", kind |-> kind, quantity |-> quantity, rarity |-> rarity]

\* class Spatial(Position): a Position with a z.
Spatial(x, y, z) == [type |-> "Spatial", x |-> x, y |-> y, z |-> z]

\* Collision of src/components.py: its field parameters refers to a dict, an
\* object of the heap: heap[parameters] is [type |-> "dict", items |-> ...].
Collision(shape, parameters) ==
    [type |-> "Collision", shape |-> shape, has_collision |-> FALSE,
     parameters |-> parameters]

\* dict(**items)
Dict(items) == [type |-> "dict", items |-> items]

\* The base class of each component class.
Bases == [Position |-> "Component", Sprite |-> "Component", Item |-> "Component",
          Spatial |-> "Position", Collision |-> "Component"]

\* issubclass(a, b), for component classes given by name.
IsSubclass(a, b) == a = b \/ Bases[a] = b

Range(s) == {s[i] : i \in DOMAIN s}

RECURSIVE Concat(_)
\* The concatenation of a sequence of sequences (what a chain of yields produces).
Concat(ss) == IF ss = <<>> THEN <<>> ELSE Head(ss) \o Concat(Tail(ss))

----------------------------------------------------------------------------
(* Entity: src/ecs/utils.py 72-202.  The methods are functions of the      *)
(* object (a record) or of the heap, and return the new object or heap.    *)

Entity_add(self, component) ==
    [self EXCEPT !._components = (Lower[component.type] :> component) @@ @]

Entity_append(self, entity) ==
    [self EXCEPT !._entities = Append(@, entity)]

Entity_extend(self, entities) ==
    [self EXCEPT !._entities = @ \o entities]

RECURSIVE Entity_init_args(_, _)
\* The loop of Entity.__init__ over *args: entities are appended, components added.
Entity_init_args(self, args) ==
    IF args = <<>> THEN self
    ELSE LET arg == Head(args)
             next == IF arg.type = "Entity" THEN Entity_append(self, arg.handle)
                     ELSE IF arg.type \in ComponentNames THEN Entity_add(self, arg)
                     ELSE self
         IN Entity_init_args(next, Tail(args))

Entity_init(id, args) ==
    Entity_init_args(
        [_id |-> id, is_active |-> TRUE, _entities |-> <<>>, _components |-> <<>>],
        args)

RECURSIVE DictOf(_)
\* {component.__class__.__name__.lower(): component for component in components}
DictOf(components) ==
    IF components = <<>> THEN <<>>
    ELSE LET n == Len(components)
             c == components[n]
         IN (Lower[c.type] :> c) @@ DictOf(SubSeq(components, 1, n - 1))

\* Entity.update keeping the component an entity already holds of a class.
Entity_update_setdefault(self, components) ==
    [self EXCEPT !._components = @ @@ DictOf(components)]

Entity_update(self, components) ==
    [self EXCEPT !._components = DictOf(components) @@ @]

\* Entity.has answering for the instances of a class: isinstance(c, component).
Entity_has_isinstance(self, component) ==
    \E k \in DOMAIN self._components :
        IsSubclass(self._components[k].type, component.__name__)

Entity_has(self, component) ==
    Lower[component.__name__] \in DOMAIN self._components

Entity_get(self, component) ==
    IF Lower[component.__name__] \in DOMAIN self._components
    THEN Returned(self._components[Lower[component.__name__]])
    ELSE Raised("KeyError")

Entity_getattr(self, name) ==
    IF name \in DOMAIN self._components
    THEN Returned(self._components[name])
    ELSE Raised("KeyError")

Entity_len(self) == Len(self._entities)

----------------------------------------------------------------------------
(* EntityProxy: src/ecs/utils.py 205-259.  A proxy object is a record: the *)
(* handle of its entity and the classes it is scoped to.                   *)

\* EntityProxy.__init__ letting every class through when no class is given.
EntityProxy_init_open(entity, self, components) ==
    [type |-> "EntityProxy",
     _entity |-> entity,
     _components |-> IF Len(components) = 0
                     THEN {Class(name) : name \in ComponentNames}
                     ELSE Range(components)]

\* tuple(type(c) for c in entity._components.values()) when no class is given.
EntityProxy_init(entity, self, components) ==
    [type |-> "EntityProxy",
     _entity |-> entity,
     _components |-> IF Len(components) = 0
                     THEN {TypeOf(self._components[k]) : k \in DOMAIN self._components}
                     ELSE Range(components)]

EntityProxy_check_component(p, component) == TypeOf(component) \in p._components

EntityProxy_check_component_type(p, component_type) == component_type \in p._components

\* EntityProxy.update applying the components of the list it is scoped to.
EntityProxy_update_partial(h, p, components) ==
    LET allowed == SelectSeq(components,
                             LAMBDA c : EntityProxy_check_component(p, c))
    IN [heap |-> [h EXCEPT ![p._entity] = Entity_update(@, allowed)],
        out |-> IF allowed = components THEN Returned(p) ELSE Warned(p)]

\* EntityProxy.update on the heap: the proxy is left as it is, the entity updated.
EntityProxy_update(h, p, components) ==
    IF ~(\A i \in DOMAIN components : EntityProxy_check_component(p, components[i]))
    THEN [heap |-> h, out |-> Warned(p)]
    ELSE [heap |-> [h EXCEPT ![p._entity] = Entity_update(@, components)],
          out |-> Returned(p)]

\* EntityProxy.has forwarding to the entity without looking at the scope.
EntityProxy_has_unscoped(h, p, component) ==
    Returned(Entity_has(h[p._entity], component))

EntityProxy_has(h, p, component) ==
    IF ~EntityProxy_check_component_type(p, component)
    THEN Warned(FALSE)
    ELSE Returned(Entity_has(h[p._entity], component))

\* EntityProxy.get forwarding to the entity without looking at the scope.
EntityProxy_get_unscoped(h, p, component) == Entity_get(h[p._entity], component)

EntityProxy_get(h, p, component) ==
    IF ~EntityProxy_check_component_type(p, component)
    THEN Raised("ValueError")
    ELSE Entity_get(h[p._entity], component)

EntityProxy_getattr(h, p, name) == Entity_getattr(h[p._entity], name)

----------------------------------------------------------------------------
(* Criteria: src/ecs/utils.py 265-342 (src/ecs/criterias.py 6-62)          *)

HasId(id) == [type |-> "HasId", _id |-> id]

HasComponent(component_list) ==
    [type |-> "HasComponent", _component_list |-> component_list]

HasComponentValue(component_list) ==
    [type |-> "HasComponentValue", _component_list |-> component_list]

HasNotComponent(component_list) ==
    [type |-> "HasNotComponent", _component_list |-> component_list]

\* isinstance(arg, Criteria)
CriteriaClasses ==
    {"HasId", "HasComponent", "HasComponentValue", "HasNotComponent",
     "FilterCriteria", "SugarCriteria"}

HasId_meet_criteria(criteria, entity) == entity._id = criteria._id

HasComponent_meet_criteria(criteria, entity) ==
    \A i \in DOMAIN criteria._component_list :
        Entity_has(entity, criteria._component_list[i])

RECURSIVE HasComponentValue_loop(_, _)
\* The loop returns at the first listed instance whose class the entity has.
HasComponentValue_loop(component_list, entity) ==
    IF component_list = <<>> THEN TRUE
    ELSE LET component == Head(component_list)
         IN IF Entity_has(entity, TypeOf(component))
            THEN Entity_get(entity, TypeOf(component)).value = component
            ELSE HasComponentValue_loop(Tail(component_list), entity)

HasComponentValue_meet_criteria(criteria, entity) ==
    HasComponentValue_loop(criteria._component_list, entity)

HasNotComponent_meet_criteria(criteria, entity) ==
    \A i \in DOMAIN criteria._component_list :
        ~Entity_has(entity, criteria._component_list[i])

\* criteria.meet_criteria(entity), dispatched on the class of the criteria.
meet_criteria(criteria, entity) ==
    CASE criteria.type = "HasId" -> HasId_meet_criteria(criteria, entity)
      [] criteria.type = "HasComponent" -> HasComponent_meet_criteria(criteria, entity)
      [] criteria.type = "HasComponentValue" ->
            HasComponentValue_meet_criteria(criteria, entity)
      [] criteria.type = "HasNotComponent" ->
            HasNotComponent_meet_criteria(criteria, entity)

----------------------------------------------------------------------------
(* Query: src/ecs/utils.py 431-510                                         *)

\* The arguments that are Criteria objects, in order.
CriteriaOf(args) == SelectSeq(args, LAMBDA arg : arg.type \in CriteriaClasses)

\* The arguments that are component classes, in order.
ClassesOf(args) == SelectSeq(args, LAMBDA arg : arg.type = "ABCMeta")

Query_check_arguments(args) ==
    LET criteria_list == CriteriaOf(args)
        proxy_components == ClassesOf(args)
    IN [criteria_list |->
            IF Len(criteria_list) = 0 /\ Len(proxy_components) # 0
            THEN [i \in DOMAIN proxy_components |-> HasComponent(<<proxy_components[i]>>)]
            ELSE criteria_list,
        proxy_components |-> proxy_components]

\* Query.check looking at the first criteria only.
Query_check_first(entity, criteria_list) ==
    criteria_list = <<>> \/ meet_criteria(Head(criteria_list), entity)

RECURSIVE Query_check(_, _)
\* all(criteria.meet_criteria(entity) for criteria in criteria_list)
Query_check(entity, criteria_list) ==
    IF criteria_list = <<>> THEN TRUE
    ELSE IF ~meet_criteria(Head(criteria_list), entity) THEN FALSE
    ELSE Query_check(entity, Tail(criteria_list))

RECURSIVE Query_get_loop(_, _, _, _)
\* The for loop of Query.get from the i-th child of the context on; the
\* recursive call Query(entity).get(*criteria_list) is the loop at child 1 of
\* entity, with the criteria list as its arguments.
Query_get_loop(h, context, args, i) ==
    LET checked == Query_check_arguments(args)
    IN IF i > Len(h[context]._entities) THEN None
       ELSE LET entity == h[context]._entities[i]
            IN IF Entity_len(h[entity]) # 0
               THEN Query_get_loop(h, entity, checked.criteria_list, 1)
               ELSE IF Query_check(h[entity], checked.criteria_list)
               THEN EntityProxy_init(entity, h[entity], checked.proxy_components)
               ELSE Query_get_loop(h, context, args, i + 1)

Query_get(h, context, args) == Query_get_loop(h, context, args, 1)

RECURSIVE Query_filter_elif(_, _, _)
\* Query.filter descending into the entities that do not match only.
Query_filter_elif(h, context, args) ==
    LET checked == Query_check_arguments(args)
        entities == h[context]._entities
    IN Concat([i \in DOMAIN entities |->
          LET entity == entities[i]
          IN IF Query_check(h[entity], checked.criteria_list)
             THEN <<EntityProxy_init(entity, h[entity], checked.proxy_components)>>
             ELSE IF Entity_len(h[entity]) # 0
             THEN Query_filter_elif(h, entity, checked.criteria_list)
             ELSE <<>>])

RECURSIVE Query_filter(_, _, _)
\* The generator, fully consumed: per child, the child if it meets the
\* criteria, then what Query(entity).filter(*criteria_list) yields.
Query_filter(h, context, args) ==
    LET checked == Query_check_arguments(args)
        entities == h[context]._entities
    IN Concat([i \in DOMAIN entities |->
          LET entity == entities[i]
          IN (IF Query_check(h[entity], checked.criteria_list)
              THEN <<EntityProxy_init(entity, h[entity], checked.proxy_components)>>
              ELSE <<>>)
             \o (IF Entity_len(h[entity]) # 0
                 THEN Query_filter(h, entity, checked.criteria_list)
                 ELSE <<>>)])

----------------------------------------------------------------------------
(* Query.call and Query.decorate: src/ecs.py 334-375, with the handlers of *)
(* src/test/test_system.py.                                                *)

\* kwargs.get(key, default)
KwGet(kwargs, key, default) == IF key \in DOMAIN kwargs THEN kwargs[key] ELSE default

\* The closure Query.call returns: what new_fn captures.
ecs_Query_call(context, fn, args, kwargs) ==
    LET positional_criteria == IF args # <<>> THEN CriteriaOf(args) ELSE <<>>
        positional_classes == IF args # <<>> THEN ClassesOf(args) ELSE <<>>
        criteria_list == IF DOMAIN kwargs # {}
                         THEN KwGet(kwargs, "criteria_list", positional_criteria)
                         ELSE positional_criteria
        proxy_components == IF DOMAIN kwargs # {}
                            THEN KwGet(kwargs, "proxy_components", positional_classes)
                            ELSE positional_classes
    IN [type |-> "function", of |-> "call", context |-> context, fn |-> fn,
        criteria_list |->
            IF Len(criteria_list) = 0 /\ Len(proxy_components) # 0
            THEN [i \in DOMAIN proxy_components |-> HasComponent(<<proxy_components[i]>>)]
            ELSE criteria_list,
        proxy_components |-> proxy_components]

\* The handlers: a function that only records its call, and move_position of
\* the tests (entity.get(Position).x += offset).
Handlers == {"record", "move_position"}

\* The dispatch in progress: the heap, the handler calls made so far, and the
\* exception that ended it ("none": none did).
Dispatch(h) == [heap |-> h, calls |-> <<>>, raised |-> "none"]

\* move_position(entity, offset): the offset is the one extra argument.
move_position(st, p, extra) ==
    LET got == EntityProxy_get(st.heap, p, Class("Position"))
    IN IF Len(extra.args) + Cardinality(DOMAIN extra.kwargs) # 1
          \/ (DOMAIN extra.kwargs # {} /\ DOMAIN extra.kwargs # {"offset"})
       THEN [st EXCEPT !.raised = "TypeError"]
       ELSE IF got.raised # "none" THEN [st EXCEPT !.raised = got.raised]
       ELSE LET offset == IF extra.args # <<>> THEN extra.args[1]
                          ELSE extra.kwargs["offset"]
            IN [st EXCEPT !.heap[p._entity]._components["position"].x = @ + offset]

\* Handlers that change the tree they are dispatched over. The entities they
\* make are named spawn, and a handler that is handed one leaves it alone.
MutatingHandlers == {"spawn_below", "spawn_in_context", "replace_others"}

\* entity._entity.append(Entity("spawn", Position(10, 10)))
spawn_below(st, p) ==
    IF st.heap[p._entity]._id = "spawn" THEN st
    ELSE LET n == Cardinality(DOMAIN st.heap)
         IN [st EXCEPT !.heap =
                (n :> Entity_init("spawn", <<Position(10, 10)>>))
                  @@ [st.heap EXCEPT ![p._entity] = Entity_append(@, n)]]

\* context.append(Entity("spawn", Position(10, 10))), context the root of
\* the tree
spawn_in_context(st, p) ==
    IF st.heap[p._entity]._id = "spawn" THEN st
    ELSE LET n == Cardinality(DOMAIN st.heap)
         IN [st EXCEPT !.heap =
                (n :> Entity_init("spawn", <<Position(10, 10)>>))
                  @@ [st.heap EXCEPT ![0] = Entity_append(@, n)]]

\* for other in context._entities:
\*     if other is not entity._entity and other.has(Position):
\*         other.update(Position(60, 20))
replace_others(st, p) ==
    [st EXCEPT !.heap =
        [n \in DOMAIN st.heap |->
            IF /\ n \in Range(st.heap[0]._entities)
               /\ n # p._entity
               /\ Entity_has(st.heap[n], Class("Position"))
            THEN Entity_update(st.heap[n], <<Position(60, 20)>>)
            ELSE st.heap[n]]]

\* fn(entity_proxy, *args, **kwargs)
CallHandler(st, fn, p, extra) ==
    LET called == [st EXCEPT !.calls =
                      Append(@, [first |-> p, args |-> extra.args, kwargs |-> extra.kwargs])]
    IN IF fn = "move_position" THEN move_position(called, p, extra)
       ELSE IF fn = "spawn_below" THEN spawn_below(called, p)
       ELSE IF fn = "spawn_in_context" THEN spawn_in_context(called, p)
       ELSE IF fn = "replace_others" THEN replace_others(called, p)
       ELSE called

RECURSIVE ecs_new_fn_loop(_, _, _, _, _)
\* for entity in self.filter(*criteria_list): fn(EntityProxy(entity, ...), ...)
\* from the i-th child of the context on. The generator of src/ecs.py 334-339
\* is resumed after each handler call: it tests a child, hands it over if it
\* matches, then descends into the child's own children.
ecs_new_fn_loop(st, context, w, extra, i) ==
    IF st.raised # "none" \/ i > Len(st.heap[context]._entities) THEN st
    ELSE LET entity == st.heap[context]._entities[i]
             handled ==
                 IF Query_check(st.heap[entity], w.criteria_list)
                 THEN CallHandler(st, w.fn,
                         EntityProxy_init(entity, st.heap[entity], w.proxy_components),
                         extra)
                 ELSE st
             below ==
                 IF handled.raised = "none" /\ Entity_len(handled.heap[entity]) # 0
                 THEN ecs_new_fn_loop(handled, entity, w, extra, 1)
                 ELSE handled
         IN ecs_new_fn_loop(below, context, w, extra, i + 1)

RECURSIVE ecs_new_fn_flat_loop(_, _, _, _)
ecs_new_fn_flat_loop(st, w, extra, i) ==
    IF st.raised # "none" \/ i > Len(st.heap[w.context]._entities) THEN st
    ELSE LET entity == st.heap[w.context]._entities[i]
         IN ecs_new_fn_flat_loop(
                IF Query_check(st.heap[entity], w.criteria_list)
                THEN CallHandler(st, w.fn,
                        EntityProxy_init(entity, st.heap[entity], w.proxy_components),
                        extra)
                ELSE st,
                w, extra, i + 1)

\* new_fn of Query.call dispatching to the children of the context only.
ecs_new_fn_flat(h, w, extra) == ecs_new_fn_flat_loop(Dispatch(h), w, extra, 1)

\* new_fn(*args, **kwargs) of Query.call
ecs_new_fn(h, w, extra) == ecs_new_fn_loop(Dispatch(h), w.context, w, extra, 1)

\* Query.decorate(fn, *criteria_list): no keyword is accepted.
ecs_Query_decorate(fn, args, kwargs) ==
    IF DOMAIN kwargs # {} THEN Raised("TypeError")
    ELSE Returned([type |-> "function", of |-> "decorate", fn |-> fn,
                   criteria_list |-> args])

\* new_fn(query, *args, **kwargs) of Query.decorate
ecs_decorated_new_fn(h, w, context, extra) ==
    ecs_new_fn(h, ecs_Query_call(context, w.fn, w.criteria_list, <<>>), extra)

----------------------------------------------------------------------------
(* The entities the scenes of the tests are built from: src/test/__init__.py *)

Templates ==
    { [id |-> "logo", components |-> <<Position(10, 10)>>],
      [id |-> "hero", components |-> <<Position(50, 20), Sprite("hero.png")>>],
      [id |-> "chest", components |-> <<>>] }

NoOp == [op |-> "none"]

NoWrapper == [type |-> "NoneType"]

NoProxy == [type |-> "NoneType"]

Init ==
    /\ heap = (0 :> Entity_init("context", <<>>))
    /\ last = NoOp
    /\ wrapper = NoWrapper
    /\ proxy = NoProxy

\* parent.append(Entity(id, *components)): a new entity object is constructed
\* and appended to an entity of the tree, of at most limit entities below the
\* context.
AppendEntity(limit, parent, t) ==
    /\ Cardinality(DOMAIN heap) <= limit
    /\ LET n == Cardinality(DOMAIN heap)
       IN heap' = (n :> Entity_init(t.id, t.components))
                    @@ [heap EXCEPT ![parent] = Entity_append(@, n)]
    /\ last' = [op |-> "append", parent |-> parent]
    /\ UNCHANGED <<wrapper, proxy>>

\* The criteria the calls are made with.
CriteriaPool ==
    { HasId("hero"),
      HasComponent(<<Class("Position")>>),
      HasNotComponent(<<Class("Sprite")>>),
      HasComponentValue(<<Position(50, 20)>>) }

\* The bare component classes the calls are made with.
ClassPool == {Class("Position"), Class("Sprite")}

\* Argument lists of check: criteria only.
CriteriaLists ==
    {<<>>} \cup {<<a>> : a \in CriteriaPool}
           \cup {args \in CriteriaPool \X CriteriaPool : args[1] # args[2]}

\* Argument lists of get and filter: criteria and classes, in any order.
ArgLists ==
    CriteriaLists
        \cup {<<a>> : a \in ClassPool}
        \cup {args \in ClassPool \X ClassPool : args[1] # args[2]}
        \cup (ClassPool \X CriteriaPool)
        \cup (CriteriaPool \X ClassPool)

\* The context the Query of the calls is bound to.
Contexts == {0}

\* The contexts of the queries a decorated wrapper is applied to.
DecorateContexts == {0, 1}

\* The calls that only read: their record says nothing of the state.
ReadOps == {"get", "filter", "check", "has", "getattr", "proxy_has", "proxy_get",
            "proxy_getattr", "entity_has", "entity_get", "eq", "has_value",
            "sugar", "sugar_args", "entity_eq", "graph_filter", "graph_get",
            "graph_call"}

\* The variable last records one call.  A call that only reads is recorded
\* from a state whose record is of a call that wrote (or of none): it leaves the
\* program's state as it is, so the same call from a state that holds the record
\* of another read would lead to the same state.
Fresh == last.op \notin ReadOps

\* Query(context).get(*args)
QueryGet(context, args) ==
    /\ Fresh
    /\ last' = [op |-> "get", context |-> context, args |-> args,
                ret |-> Query_get(heap, context, args)]
    /\ UNCHANGED <<heap, wrapper, proxy>>

\* list(Query(context).filter(*args))
QueryFilter(context, args) ==
    /\ Fresh
    /\ last' = [op |-> "filter", context |-> context, args |-> args,
                ret |-> Query_filter(heap, context, args)]
    /\ UNCHANGED <<heap, wrapper, proxy>>

\* Query.check(entity, *criteria_list)
QueryCheck(entity, criteria_list) ==
    /\ Fresh
    /\ last' = [op |-> "check", entity |-> entity, args |-> criteria_list,
                ret |-> Query_check(heap[entity], criteria_list)]
    /\ UNCHANGED <<heap, wrapper, proxy>>

\* The argument forms of call and decorate: positional criteria and classes,
\* and the keywords of the tests.
CallForms ==
    { [args |-> <<HasComponent(<<Class("Position")>>)>>, kwargs |-> <<>>],
      [args |-> <<HasComponentValue(<<Position(10, 10)>>)>>, kwargs |-> <<>>],
      [args |-> <<>>, kwargs |-> <<>>],
      [args |-> <<Class("Position")>>, kwargs |-> <<>>],
      [args |-> <<HasNotComponent(<<Class("Sprite")>>), Class("Position")>>,
       kwargs |-> <<>>],
      [args |-> <<>>,
       kwargs |-> [criteria_list |-> <<HasComponent(<<Class("Position")>>)>>,
                   proxy_components |-> <<Class("Position")>>]],
      [args |-> <<Class("Position")>>, kwargs |-> [strategy |-> "all-at-once"]] }

\* The extra arguments a wrapper is invoked with.
ExtraArgs ==
    { [args |-> <<40>>, kwargs |-> <<>>],
      [args |-> <<>>, kwargs |-> [offset |-> 40]] }

\* No handler moved a Position beyond the bound of the model.
WithinBounds(h) ==
    \A n \in DOMAIN h :
        "position" \in DOMAIN h[n]._components => h[n]._components["position"].x <= MaxCoord

\* wrapper = Query(context).call(fn, *args, **kwargs); the variable wrapper
\* holds the one wrapper a behaviour binds.
QueryCall(context, fn, form) ==
    /\ wrapper = NoWrapper
    /\ wrapper' = ecs_Query_call(context, fn, form.args, form.kwargs)
                      @@ [form |-> form]
    /\ last' = [op |-> "call", pre |-> heap, calls |-> <<>>, raised |-> "none"]
    /\ UNCHANGED <<heap, proxy>>

\* wrapper = Query.decorate(fn, *args, **kwargs)
QueryDecorate(fn, form) ==
    LET out == ecs_Query_decorate(fn, form.args, form.kwargs)
    IN /\ wrapper = NoWrapper
       /\ wrapper' = IF out.raised = "none" THEN out.value @@ [form |-> form]
                     ELSE wrapper
       /\ last' = [op |-> "decorate", pre |-> heap, calls |-> <<>>,
                   raised |-> out.raised, fn |-> fn, form |-> form]
       /\ UNCHANGED <<heap, proxy>>

\* wrapper(*args, **kwargs), for a wrapper Query.call returned
Invoke(extra) ==
    /\ wrapper # NoWrapper /\ wrapper.of = "call"
    /\ LET st == ecs_new_fn(heap, wrapper, extra)
       IN /\ WithinBounds(st.heap)
          /\ heap' = st.heap
          /\ last' = [op |-> "invoke", pre |-> heap, calls |-> st.calls,
                      raised |-> st.raised, context |-> wrapper.context,
                      extra |-> extra]
    /\ UNCHANGED <<wrapper, proxy>>

\* wrapper(Query(context), *args, **kwargs), for a wrapper Query.decorate returned
InvokeDecorated(context, extra) ==
    /\ wrapper # NoWrapper /\ wrapper.of = "decorate"
    /\ LET st == ecs_decorated_new_fn(heap, wrapper, context, extra)
       IN /\ WithinBounds(st.heap)
          /\ heap' = st.heap
          /\ last' = [op |-> "invoke", pre |-> heap, calls |-> st.calls,
                      raised |-> st.raised, context |-> context, extra |-> extra]
    /\ UNCHANGED <<wrapper, proxy>>

\* The classes a proxy is constructed with (none: the classes of the entity).
ProxyClassLists ==
    { <<>>, <<Class("Position")>>, <<Class("Sprite")>>,
      <<Class("Position"), Class("Sprite")>> }

\* The components a proxy is updated with.
UpdateLists ==
    { <<>>,
      <<Position(60, 20)>>,
      <<Sprite("logo.png")>>,
      <<Position(60, 20), Sprite("logo.png")>>,
      <<Position(60, 20), Position(10, 10)>> }

\* proxy = EntityProxy(entity, *components)
NewProxy(entity, components) ==
    /\ proxy' = EntityProxy_init(entity, heap[entity], components)
    /\ last' = [op |-> "proxy", pre |-> heap]
    /\ UNCHANGED <<heap, wrapper>>

\* proxy.has(component)
ProxyHas(component) ==
    /\ Fresh /\ proxy # NoProxy
    /\ last' = [op |-> "proxy_has", pre |-> heap, arg |-> component,
                out |-> EntityProxy_has(heap, proxy, component)]
    /\ UNCHANGED <<heap, wrapper, proxy>>

\* proxy.get(component)
ProxyGet(component) ==
    /\ Fresh /\ proxy # NoProxy
    /\ last' = [op |-> "proxy_get", pre |-> heap, arg |-> component,
                out |-> EntityProxy_get(heap, proxy, component)]
    /\ UNCHANGED <<heap, wrapper, proxy>>

\* getattr(proxy, name), for the name of a component: proxy.position
ProxyGetattr(name) ==
    /\ Fresh /\ proxy # NoProxy
    /\ last' = [op |-> "proxy_getattr", pre |-> heap, arg |-> name,
                out |-> EntityProxy_getattr(heap, proxy, name)]
    /\ UNCHANGED <<heap, wrapper, proxy>>

\* proxy.update(*components)
ProxyUpdate(components) ==
    /\ proxy # NoProxy
    /\ LET done == EntityProxy_update(heap, proxy, components)
       IN /\ heap' = done.heap
          /\ last' = [op |-> "proxy_update", pre |-> heap, arg |-> components,
                      out |-> done.out]
    /\ UNCHANGED <<wrapper, proxy>>

Next ==
    \/ \E parent \in DOMAIN heap, t \in Templates :
          AppendEntity(MaxEntities, parent, t)
    \/ \E context \in Contexts, args \in ArgLists : QueryGet(context, args)
    \/ \E context \in Contexts, args \in ArgLists : QueryFilter(context, args)
    \/ \E entity \in DOMAIN heap, criteria_list \in CriteriaLists :
          QueryCheck(entity, criteria_list)

Spec == Init /\ [][Next]_vars

\* The tree is built and handlers are bound to it and dispatched.
NextCall ==
    \/ \E parent \in DOMAIN heap, t \in Templates :
          AppendEntity(MaxEntities, parent, t)
    \/ \E context \in Contexts, fn \in Handlers, form \in CallForms :
          QueryCall(context, fn, form)
    \/ \E fn \in Handlers, form \in CallForms : QueryDecorate(fn, form)
    \/ \E extra \in ExtraArgs : Invoke(extra)
    \/ \E context \in DecorateContexts \cap DOMAIN heap, extra \in ExtraArgs :
          InvokeDecorated(context, extra)

SpecCall == Init /\ [][NextCall]_vars

\* Entities are made and read and written through proxies.
NextProxy ==
    \/ \E parent \in DOMAIN heap, t \in Templates :
          AppendEntity(MaxProxyEntities, parent, t)
    \/ \E entity \in DOMAIN heap, components \in ProxyClassLists :
          NewProxy(entity, components)
    \/ \E name \in ComponentNames : ProxyHas(Class(name))
    \/ \E name \in ComponentNames : ProxyGet(Class(name))
    \/ \E name \in ComponentNames : ProxyGetattr(Lower[name])
    \/ \E components \in UpdateLists : ProxyUpdate(components)

SpecProxy == Init /\ [][NextProxy]_vars

----------------------------------------------------------------------------
(* The tree, described without the traversal: descendants by reachability, *)
(* the position of an entity by the path of child indices leading to it.   *)

Children(h, n) == Range(h[n]._entities)

RECURSIVE Closure(_, _)
Closure(h, S) ==
    LET T == S \cup UNION {Children(h, n) : n \in S}
    IN IF T = S THEN S ELSE Closure(h, T)

\* The proper descendants of r.
Descendants(h, r) == Closure(h, Children(h, r))

ParentOf(h, n) == CHOOSE p \in DOMAIN h : n \in Children(h, p)

IndexOf(h, n) == CHOOSE i \in DOMAIN h[ParentOf(h, n)]._entities :
                    h[ParentOf(h, n)]._entities[i] = n

RECURSIVE PathTo(_, _, _)
\* The child indices on the way from r down to its descendant n.
PathTo(h, r, n) ==
    IF ParentOf(h, n) = r THEN <<IndexOf(h, n)>>
    ELSE Append(PathTo(h, r, ParentOf(h, n)), IndexOf(h, n))

\* Pre-order on paths: an ancestor comes before its descendants, and a subtree
\* before the subtrees of the later siblings.
PathBefore(a, b) ==
    \/ Len(a) < Len(b) /\ SubSeq(b, 1, Len(a)) = a
    \/ \E k \in DOMAIN a \cap DOMAIN b :
          /\ SubSeq(a, 1, k - 1) = SubSeq(b, 1, k - 1)
          /\ a[k] < b[k]

\* The entity meets every criteria of the list.
MeetsAll(h, n, criteria_list) ==
    \A i \in DOMAIN criteria_list : meet_criteria(criteria_list[i], h[n])

\* The descendants of the context that meet every criteria of the list.
Matching(h, context, criteria_list) ==
    {d \in Descendants(h, context) : MeetsAll(h, d, criteria_list)}

\* The entities of a sequence of proxies.
EntitiesOf(proxies) == [i \in DOMAIN proxies |-> proxies[i]._entity]

\* The sequence lists its entities in pre-order below the context, each once.
InPreOrder(h, context, ys) ==
    \A i \in DOMAIN ys, j \in DOMAIN ys :
        i < j => PathBefore(PathTo(h, context, ys[i]), PathTo(h, context, ys[j]))

----------------------------------------------------------------------------
(* Claims *)

\* C1: Query.filter with a list of criteria (the empty list included) yields
\* exactly the proper descendants of the context that meet all the criteria,
\* each once, in pre-order; never the context itself; a parent, matching or
\* not, never hides its children.
C1_FilterPreOrder ==
    (last.op = "filter" /\ last.args \in CriteriaLists) =>
        LET ys == EntitiesOf(last.ret)
        IN /\ Range(ys) = Matching(heap, last.context, last.args)
           /\ last.context \notin Range(ys)
           /\ InPreOrder(heap, last.context, ys)

\* C1 witness: a filter that yields a grandchild whose parent does not match and
\* a later sibling of that parent.
C1_Witness ==
    /\ last.op = "filter" /\ last.args \in CriteriaLists /\ last.args # <<>>
    /\ \E i \in DOMAIN last.ret, j \in DOMAIN last.ret :
          /\ i < j
          /\ Len(PathTo(heap, last.context, last.ret[i]._entity)) = 2
          /\ ParentOf(heap, last.ret[i]._entity) \notin Range(EntitiesOf(last.ret))
          /\ Len(PathTo(heap, last.context, last.ret[j]._entity)) = 1

\* C2: Query.get returns the first entity, in pre-order over the proper
\* descendants of the context, that meets all the criteria, and None if and
\* only if no descendant meets them.
C2_GetFirstMatch ==
    (last.op = "get" /\ last.args \in CriteriaLists) =>
        LET matching == Matching(heap, last.context, last.args)
        IN IF matching = {} THEN last.ret = None
           ELSE /\ last.ret # None
                /\ last.ret._entity \in matching
                /\ \A m \in matching \ {last.ret._entity} :
                      PathBefore(PathTo(heap, last.context, last.ret._entity),
                                 PathTo(heap, last.context, m))

\* C6: with bare component classes T1..Tn, (a) when no criteria is given the
\* matches are exactly the entities having every Ti, and (b) every proxy
\* returned, for a match at any depth, is scoped to exactly {T1..Tn}.
C6_BareTypesScopeProxies ==
    (last.op \in {"get", "filter"} /\ ClassesOf(last.args) # <<>>) =>
        LET classes == Range(ClassesOf(last.args))
            having == {d \in Descendants(heap, last.context) :
                          \A T \in classes : Entity_has(heap[d], T)}
            proxies == IF last.op = "filter" THEN Range(last.ret)
                       ELSE {last.ret} \ {None}
        IN /\ (CriteriaOf(last.args) = <<>> /\ last.op = "filter") =>
                 {p._entity : p \in proxies} = having
           /\ (CriteriaOf(last.args) = <<>> /\ last.op = "get") =>
                 {p._entity : p \in proxies} \subseteq having
           /\ \A p \in proxies : p._components = classes

\* C7: filter(C1, C2) yields the entities that filter(C1) and filter(C2) both
\* yield, in traversal order; check(e, C1, ..., Cn) is the conjunction of the
\* Ci.meet_criteria(e), and true when no criteria is given.
C7_Conjunction ==
    /\ (last.op = "filter" /\ last.args \in CriteriaLists /\ Len(last.args) = 2) =>
          LET first == EntitiesOf(Query_filter(heap, last.context, <<last.args[1]>>))
              second == EntitiesOf(Query_filter(heap, last.context, <<last.args[2]>>))
          IN EntitiesOf(last.ret) = SelectSeq(first, LAMBDA e : e \in Range(second))
    /\ last.op = "check" =>
          last.ret = \A i \in DOMAIN last.args :
                        meet_criteria(last.args[i], heap[last.entity])

\* C7 witness: two criteria, each met by an entity the other rejects, and an
\* entity that meets both.
C7_Witness ==
    /\ last.op = "filter" /\ last.args \in CriteriaLists /\ Len(last.args) = 2
    /\ last.ret # <<>>
    /\ \E d \in Descendants(heap, last.context) :
          meet_criteria(last.args[1], heap[d]) /\ ~meet_criteria(last.args[2], heap[d])
    /\ \E d \in Descendants(heap, last.context) :
          ~meet_criteria(last.args[1], heap[d]) /\ meet_criteria(last.args[2], heap[d])

\* The descendants of the context an argument list of criteria and bare
\* classes selects: those that meet the criteria, or, when only classes are
\* given, those that have every class.
MatchingArgs(h, context, args) ==
    {d \in Descendants(h, context) :
        /\ MeetsAll(h, d, CriteriaOf(args))
        /\ CriteriaOf(args) = <<>> =>
              \A T \in Range(ClassesOf(args)) : Entity_has(h[d], T)}

\* The entities the handler was called on, in the order of the calls.
Handled(calls) == [i \in DOMAIN calls |-> calls[i].first._entity]

\* C3: binding a handler with call invokes nothing; every invocation of the
\* wrapper (one-at-a-time strategy, handler returning) calls the handler once
\* per entity that matches in the tree as it is at that invocation, in
\* pre-order, with a proxy of the entity followed by the extra arguments;
\* never on the context nor on an entity that does not match.
C3_CallOncePerMatch ==
    /\ last.op = "call" => (last.calls = <<>> /\ heap = last.pre)
    /\ (/\ last.op = "invoke" /\ wrapper.of = "call"
        /\ DOMAIN wrapper.form.kwargs = {} /\ last.raised = "none") =>
          LET ys == Handled(last.calls)
          IN /\ Range(ys) = MatchingArgs(last.pre, last.context, wrapper.form.args)
             /\ InPreOrder(last.pre, last.context, ys)
             /\ last.context \notin Range(ys)
             /\ \A i \in DOMAIN last.calls :
                   /\ last.calls[i].first.type = "EntityProxy"
                   /\ last.calls[i].args = last.extra.args
                   /\ last.calls[i].kwargs = last.extra.kwargs

\* C3 witness: an invocation that changed the tree and called the handler on a
\* grandchild of the context and on a later child, where the context has a
\* descendant that does not match.
C3_Witness ==
    /\ last.op = "invoke" /\ wrapper.of = "call"
    /\ DOMAIN wrapper.form.kwargs = {} /\ last.raised = "none"
    /\ heap # last.pre
    /\ Range(Handled(last.calls)) # Descendants(heap, last.context)
    /\ \E i \in DOMAIN last.calls, j \in DOMAIN last.calls :
          /\ i < j
          /\ Len(PathTo(heap, last.context, last.calls[i].first._entity)) = 2
          /\ Len(PathTo(heap, last.context, last.calls[j].first._entity)) = 1

\* C4: a wrapper bound with strategy="all-at-once" calls the handler exactly
\* once per invocation, with the list of all the matches in traversal order
\* as first argument, followed by the extra arguments.
C4_AllAtOnceSingleCall ==
    (/\ last.op = "invoke"
     /\ "strategy" \in DOMAIN wrapper.form.kwargs
     /\ wrapper.form.kwargs["strategy"] = "all-at-once") =>
        /\ Len(last.calls) = 1
        /\ last.calls[1].first.type = "list"
        /\ LET ys == EntitiesOf(last.calls[1].first.items)
           IN /\ Range(ys) = MatchingArgs(last.pre, last.context, wrapper.form.args)
              /\ InPreOrder(last.pre, last.context, ys)
        /\ last.calls[1].args = last.extra.args
        /\ last.calls[1].kwargs = last.extra.kwargs

\* C5: for every argument form call accepts (positional criteria and classes,
\* the keywords criteria_list, proxy_components, strategy),
\* Query.decorate(handler, form)(query, *a, **k) makes the handler calls and
\* leaves the tree as query.call(handler, form)(*a, **k) does.
C5_DecorateEqualsCall ==
    /\ last.op = "decorate" =>
          \A context \in DecorateContexts \cap DOMAIN heap, extra \in ExtraArgs :
              LET decorated ==
                      IF last.raised = "none"
                      THEN ecs_decorated_new_fn(heap, wrapper, context, extra)
                      ELSE [Dispatch(heap) EXCEPT !.raised = last.raised]
                  called ==
                      ecs_new_fn(heap,
                          ecs_Query_call(context, last.fn, last.form.args,
                                         last.form.kwargs),
                          extra)
              IN decorated.calls = called.calls /\ decorated.heap = called.heap
    /\ (last.op = "invoke" /\ wrapper.of = "decorate") =>
          LET called ==
                  ecs_new_fn(last.pre,
                      ecs_Query_call(last.context, wrapper.fn, wrapper.form.args,
                                     wrapper.form.kwargs),
                      last.extra)
          IN last.calls = called.calls /\ heap = called.heap

\* The keys of the component map of the proxied entity whose value the last
\* call replaced or added.
Replaced == {k \in DOMAIN heap[proxy._entity]._components :
                k \notin DOMAIN last.pre[proxy._entity]._components
                \/ last.pre[proxy._entity]._components[k]
                     # heap[proxy._entity]._components[k]}

\* C8: no operation on a proxy (has, get, update, attribute access by
\* component name) returns or replaces a component whose class is outside the
\* classes the proxy is scoped to.
C8_ProxyScoped ==
    /\ (last.op \in {"proxy_get", "proxy_getattr"} /\ last.out.raised = "none") =>
          TypeOf(last.out.value) \in proxy._components
    /\ (last.op = "proxy_has" /\ last.out.value) => last.arg \in proxy._components
    /\ last.op = "proxy_update" =>
          \A k \in Replaced :
              TypeOf(heap[proxy._entity]._components[k]) \in proxy._components

\* C9: proxy.has(T) never raises, equals (T in W) and entity.has(T), false for
\* every T outside the scope W even when the entity has T, and leaves the
\* entity unchanged.
C9_ProxyHas ==
    last.op = "proxy_has" =>
        /\ last.out.raised = "none"
        /\ last.out.value =
              (/\ last.arg \in proxy._components
               /\ Lower[last.arg.__name__] \in DOMAIN heap[proxy._entity]._components)
        /\ heap = last.pre

\* C9 witness: has asked for a class the entity has and the proxy is not
\* scoped to.
C9_Witness ==
    /\ last.op = "proxy_has"
    /\ last.arg \notin proxy._components
    /\ Lower[last.arg.__name__] \in DOMAIN heap[proxy._entity]._components
    /\ last.out.value = FALSE

\* The last component of each class in a list of components.
LastOfClass(components) ==
    {components[i] : i \in {j \in DOMAIN components :
        \A k \in DOMAIN components : k > j => components[k].type # components[j].type}}

\* C10: proxy.update(c1..cn) never raises; if a ci is of a class outside the
\* scope the component map of the entity is left as it was; otherwise the
\* entity ends as after Entity.update(c1..cn) and the new values are what the
\* entity itself returns.
C10_ProxyUpdateAllOrNothing ==
    last.op = "proxy_update" =>
        /\ last.out.raised = "none"
        /\ IF \E i \in DOMAIN last.arg : TypeOf(last.arg[i]) \notin proxy._components
           THEN heap = last.pre
           ELSE /\ heap = [last.pre EXCEPT ![proxy._entity] = Entity_update(@, last.arg)]
                /\ \A c \in LastOfClass(last.arg) :
                      Entity_get(heap[proxy._entity], TypeOf(c)) = Returned(c)
                /\ \A k \in DOMAIN last.pre[proxy._entity]._components :
                      (\A c \in Range(last.arg) : Lower[c.type] # k) =>
                          heap[proxy._entity]._components[k]
                            = last.pre[proxy._entity]._components[k]

\* C10 witness: an update rejected for one component, listed after a component
\* the proxy is scoped to and that differs from the one the entity holds.
C10_Witness ==
    /\ last.op = "proxy_update" /\ Len(last.arg) = 2
    /\ TypeOf(last.arg[1]) \in proxy._components
    /\ TypeOf(last.arg[2]) \notin proxy._components
    /\ Entity_has(heap[proxy._entity], TypeOf(last.arg[1]))
    /\ Entity_get(heap[proxy._entity], TypeOf(last.arg[1])).value # last.arg[1]
    /\ last.out.warned

----------------------------------------------------------------------------
(* Exceptions: the built-in classes the code raises.  KeyError (a missing   *)
(* key of the component map) derives from LookupError, ValueError (raised   *)
(* by EntityProxy.get) does not.                                            *)

IsLookupError(exception) == exception \in {"LookupError", "KeyError", "IndexError"}

\* C11 (as stated): proxy.get(T) for a class T outside the scope fails with a
\* LookupError, the class of error Entity.get raises for an absent class, and
\* leaves the entity unchanged.
C11_ProxyGetLookupError ==
    (last.op = "proxy_get" /\ last.arg \notin proxy._components) =>
        /\ IsLookupError(last.out.raised)
        /\ heap = last.pre

\* C11 (amended): proxy.get(T) for a class T outside the scope never returns a
\* value, whether the entity has T or not: it raises ValueError, which is not
\* a LookupError, and leaves the entity unchanged.
C11_ProxyGetValueError ==
    (last.op = "proxy_get" /\ last.arg \notin proxy._components) =>
        /\ last.out.raised = "ValueError"
        /\ ~IsLookupError(last.out.raised)
        /\ last.out.value = None
        /\ heap = last.pre

\* C11 witness: get asked for a class the entity has and the proxy is not
\* scoped to.
C11_Witness ==
    /\ last.op = "proxy_get"
    /\ last.arg \notin proxy._components
    /\ Entity_has(heap[proxy._entity], last.arg)
    /\ last.out.raised = "ValueError"

----------------------------------------------------------------------------
(* Components are added to entities and read back: Entity.add, update, has *)
(* and get of src/ecs/utils.py 124-154.                                    *)

\* Bound of the model: number of entities below the context entity in the
\* behaviours that add components.
MaxAddEntities == 1

\* The entities components are added to: made without any.
EmptyTemplates == {t \in Templates : t.components = <<>>}

\* The components entity.add is called with.
AddPool ==
    { Position(60, 20), Position(10, 10), Sprite("logo.png"), Spatial(10, 10, 5) }

\* The classes entity.has and entity.get are asked for.
AskedClasses == {Class(name) : name \in {"Position", "Sprite", "Spatial"}}

\* entity.add(component)
EntityAdd(entity, component) ==
    /\ heap' = [heap EXCEPT ![entity] = Entity_add(@, component)]
    /\ last' = [op |-> "add", pre |-> heap, entity |-> entity, arg |-> component]
    /\ UNCHANGED <<wrapper, proxy>>

\* entity.update(*components)
EntityUpdate(entity, components) ==
    /\ heap' = [heap EXCEPT ![entity] = Entity_update(@, components)]
    /\ last' = [op |-> "entity_update", pre |-> heap, entity |-> entity,
                arg |-> components]
    /\ UNCHANGED <<wrapper, proxy>>

\* entity.has(component)
EntityHas(entity, component) ==
    /\ Fresh
    /\ last' = [op |-> "entity_has", pre |-> heap, entity |-> entity,
                arg |-> component,
                out |-> Returned(Entity_has(heap[entity], component))]
    /\ UNCHANGED <<heap, wrapper, proxy>>

\* entity.get(component)
EntityGet(entity, component) ==
    /\ Fresh
    /\ last' = [op |-> "entity_get", pre |-> heap, entity |-> entity,
                arg |-> component, out |-> Entity_get(heap[entity], component)]
    /\ UNCHANGED <<heap, wrapper, proxy>>

\* Entities are made, given components and asked for them.
NextEntity ==
    \/ \E parent \in DOMAIN heap, t \in EmptyTemplates :
          AppendEntity(MaxAddEntities, parent, t)
    \/ \E entity \in DOMAIN heap, component \in AddPool :
          EntityAdd(entity, component)
    \/ \E entity \in DOMAIN heap, components \in UpdateLists :
          EntityUpdate(entity, components)
    \/ \E entity \in DOMAIN heap, component \in AskedClasses :
          EntityHas(entity, component)
    \/ \E entity \in DOMAIN heap, component \in AskedClasses :
          EntityGet(entity, component)

SpecEntity == Init /\ [][NextEntity]_vars

RECURSIVE AddEach(_, _)
\* self.add(c1); ...; self.add(cn)
AddEach(self, components) ==
    IF components = <<>> THEN self
    ELSE AddEach(Entity_add(self, Head(components)), Tail(components))

\* The classes of the components an entity holds.
HeldClasses(self) == {TypeOf(self._components[k]) : k \in DOMAIN self._components}

\* C12: an entity holds one component per class, under the lowercased name of
\* the class; after add(c) of class T, has(T) is true, get(T) returns c, and
\* the components of the other classes, the child list and the other
\* entities are as before; update(c1..cn) leaves the entity as add(c1); ...;
\* add(cn) does, the last component listed of a class being the one get returns.
C12_AddLastWriteWins ==
    /\ \A n \in DOMAIN heap : \A k \in DOMAIN heap[n]._components :
          /\ Lower[heap[n]._components[k].type] = k
          /\ \A j \in DOMAIN heap[n]._components :
                heap[n]._components[j].type = heap[n]._components[k].type => j = k
    /\ last.op = "add" =>
          LET E == heap[last.entity]
              was == last.pre[last.entity]
              T == TypeOf(last.arg)
          IN /\ Entity_has(E, T)
             /\ Entity_get(E, T) = Returned(last.arg)
             /\ \A U \in {Class(name) : name \in ComponentNames} \ {T} :
                   /\ Entity_has(E, U) = Entity_has(was, U)
                   /\ Entity_get(E, U) = Entity_get(was, U)
             /\ E._entities = was._entities /\ E._id = was._id
             /\ \A n \in DOMAIN heap \ {last.entity} : heap[n] = last.pre[n]
    /\ last.op = "entity_update" =>
          /\ heap[last.entity] = AddEach(last.pre[last.entity], last.arg)
          /\ \A c \in LastOfClass(last.arg) :
                Entity_get(heap[last.entity], TypeOf(c)) = Returned(c)
          /\ \A n \in DOMAIN heap \ {last.entity} : heap[n] = last.pre[n]

\* C12 witness: an update listing a class twice, on an entity that has a child,
\* held another value of that class and holds a component of another class.
C12_Witness ==
    /\ last.op = "entity_update" /\ Len(last.arg) = 2
    /\ last.arg[1].type = last.arg[2].type /\ last.arg[1] # last.arg[2]
    /\ Entity_len(heap[last.entity]) > 0
    /\ Entity_get(last.pre[last.entity], TypeOf(last.arg[2])) = Returned(last.arg[1])
    /\ Entity_get(heap[last.entity], TypeOf(last.arg[2])) = Returned(last.arg[2])
    /\ Cardinality(HeldClasses(heap[last.entity])) > 1

\* C13: for a class T no component of the entity is of (T itself, not a
\* subclass or a superclass of T), has(T) returns false and get(T) raises a
\* LookupError, and nothing is changed.
C13_AbsentHasGet ==
    (/\ last.op \in {"entity_has", "entity_get"}
     /\ last.arg \notin HeldClasses(heap[last.entity])) =>
        /\ last.op = "entity_has" => last.out = Returned(FALSE)
        /\ last.op = "entity_get" =>
              (IsLookupError(last.out.raised) /\ last.out.value = None)
        /\ heap = last.pre

\* C13 witness: has asked for Position to an entity that holds a Spatial, a
\* subclass of Position, and no Position.
C13_Witness ==
    /\ last.op = "entity_has" /\ last.arg = Class("Position")
    /\ IsSubclass("Spatial", last.arg.__name__)
    /\ Class("Spatial") \in HeldClasses(heap[last.entity])
    /\ Class("Position") \notin HeldClasses(heap[last.entity])
    /\ last.out.value = FALSE

----------------------------------------------------------------------------
(* Copies and equality of entities: Entity.__eq__, __copy__ and            *)
(* __deepcopy__ of src/ecs/utils.py 169-202, on entities holding the       *)
(* Collision of src/components.py, whose parameters are a dict.            *)

\* Bound of the model: number of objects (entities and dicts) besides the
\* context entity in the behaviours that copy entities.
MaxCopyObjects == 4

\* Bound of the model: number of calls that change the original or the copy
\* after a copy is made.
MaxMutations == 2

\* The objects of the heap that are entities.
Entities(h) == {n \in DOMAIN h : "_id" \in DOMAIN h[n]}

\* A reference to an entity object, as an argument or an operand.
EntityRef(n) == [type |-> "Entity", handle |-> n]

\* Collision.__post_init__ for Shape.CIRCLE: parameters.setdefault(...)
Collision_post_init(items) == items @@ [radius |-> 10, outline |-> 1]

\* copy.copy(component): a new component object with the field values of the
\* component; a field that refers to an object refers to the same object.
copy_copy(component) == component

\* Entity.__copy__ returning the entity with its components and children.
Entity_copy_keeping(h, entity) ==
    LET n == Cardinality(DOMAIN h)
    IN [heap |-> (n :> [h[entity] EXCEPT !.is_active = TRUE]) @@ h, ret |-> n]

\* Entity.__copy__: Entity(self.id), a new object.
Entity_copy(h, entity) ==
    LET n == Cardinality(DOMAIN h)
    IN [heap |-> (n :> Entity_init(h[entity]._id, <<>>)) @@ h, ret |-> n]

RECURSIVE Entity_deepcopy(_, _)
RECURSIVE Entity_deepcopy_children(_, _, _)
\* for entity in self._entities: E.append(copy.deepcopy(entity))
Entity_deepcopy_children(h, entities, done) ==
    IF entities = <<>> THEN [heap |-> h, ret |-> done]
    ELSE LET child == Entity_deepcopy(h, Head(entities))
         IN Entity_deepcopy_children(child.heap, Tail(entities),
                                     Append(done, child.ret))

\* Entity.__deepcopy__ giving the copy the is_active of the entity it copies.
Entity_deepcopy_flagged(h, entity) ==
    LET self == h[entity]
        children == Entity_deepcopy_children(h, self._entities, <<>>)
        n == Cardinality(DOMAIN children.heap)
        E == [Entity_init(self._id, <<>>) EXCEPT
                 !._components = [k \in DOMAIN self._components |->
                                     copy_copy(self._components[k])],
                 !._entities = children.ret,
                 !.is_active = self.is_active]
    IN [heap |-> (n :> E) @@ children.heap, ret |-> n]

\* Entity.__deepcopy__: Entity(self.id) with a copy.copy of each component and
\* a deep copy of each child.
Entity_deepcopy(h, entity) ==
    LET self == h[entity]
        children == Entity_deepcopy_children(h, self._entities, <<>>)
        n == Cardinality(DOMAIN children.heap)
        E == [Entity_init(self._id, <<>>) EXCEPT
                 !._components = [k \in DOMAIN self._components |->
                                     copy_copy(self._components[k])],
                 !._entities = children.ret]
    IN [heap |-> (n :> E) @@ children.heap, ret |-> n]

\* The fields a dataclass compares, the dict a field refers to being compared
\* by its items.
FieldValues(h, component) ==
    IF component.type = "Collision"
    THEN [component EXCEPT !.parameters = h[@].items]
    ELSE component

\* component == other, the __eq__ of a dataclass: same class, equal fields.
Component_eq(h, component, other) ==
    component.type = other.type /\ FieldValues(h, component) = FieldValues(h, other)

RECURSIVE Entity_eq(_, _, _)
\* Entity.__eq__(self, other), other an entity, a proxy or anything else.
Entity_eq(h, self, other) ==
    IF other.type = "Entity"
    THEN LET a == h[self]
             b == h[other.handle]
         IN /\ a._id = b._id
            /\ DOMAIN a._components = DOMAIN b._components
            /\ \A k \in DOMAIN a._components :
                  Component_eq(h, a._components[k], b._components[k])
            /\ Len(a._entities) = Len(b._entities)
            /\ \A i \in DOMAIN a._entities :
                  \/ a._entities[i] = b._entities[i]
                  \/ Entity_eq(h, a._entities[i], EntityRef(b._entities[i]))
    ELSE IF other.type = "EntityProxy"
    THEN h[self]._id = h[other._entity]._id
    ELSE FALSE

\* a == b: the __eq__ of the left operand; a proxy defines none, so the
\* __eq__ of the right operand is asked, and the operands are compared by
\* identity when it defines none either.
PyEq(h, a, b) ==
    IF a.type = "Entity" THEN Entity_eq(h, a.handle, b)
    ELSE IF b.type = "Entity" THEN Entity_eq(h, b.handle, a)
    ELSE a = b

\* parent.append(Entity("ball", Position(10, 10),
\*                      Collision(Shape.CIRCLE, parameters=dict(radius=20)))),
\* as src/main.py 81-89 makes its ball; done before any copy is made.
AppendBall(parent) ==
    /\ last.op \in {"none", "append"}
    /\ Cardinality(DOMAIN heap) + 1 <= MaxCopyObjects
    /\ LET d == Cardinality(DOMAIN heap)
           n == d + 1
           ball == Entity_init("ball", <<Position(10, 10), Collision("CIRCLE", d)>>)
       IN heap' = (d :> Dict(Collision_post_init([radius |-> 20])))
                    @@ (n :> ball)
                    @@ [heap EXCEPT ![parent] = Entity_append(@, n)]
    /\ last' = [op |-> "append", parent |-> parent]
    /\ UNCHANGED <<wrapper, proxy>>

\* copy.deepcopy(entity); a behaviour makes one copy.
DeepCopy(entity) ==
    LET made == Entity_deepcopy(heap, entity)
    IN /\ last.op \in {"none", "append"}
       /\ Cardinality(DOMAIN made.heap) - 1 <= MaxCopyObjects
       /\ heap' = made.heap
       /\ last' = [op |-> "deepcopy", pre |-> heap, orig |-> entity,
                   copy |-> made.ret]
       /\ UNCHANGED <<wrapper, proxy>>

\* copy.copy(entity); a behaviour makes one copy.
ShallowCopy(entity) ==
    LET made == Entity_copy(heap, entity)
    IN /\ last.op \in {"none", "append"}
       /\ Cardinality(DOMAIN made.heap) - 1 <= MaxCopyObjects
       /\ heap' = made.heap
       /\ last' = [op |-> "copy", pre |-> heap, orig |-> entity, copy |-> made.ret]
       /\ UNCHANGED <<wrapper, proxy>>

\* The entities of the original and of its copy: those the calls that follow
\* a copy are made on.
CopyTargets ==
    IF last.op \in {"deepcopy", "copy"} \/ (last.op = "mutate" /\ last.n < MaxMutations)
    THEN {last.orig, last.copy}
           \cup Descendants(heap, last.orig) \cup Descendants(heap, last.copy)
    ELSE {}

\* The record of a call made on an entity of the original or of the copy.
Mutation(how, target) ==
    [op |-> "mutate", how |-> how, target |-> target, pre |-> heap,
     by |-> IF last.op = "mutate" THEN last.by ELSE last.op,
     n |-> IF last.op = "mutate" THEN last.n + 1 ELSE 1,
     orig |-> last.orig, copy |-> last.copy]

\* target.add(component)
MutateAdd(target, component) ==
    /\ target \in CopyTargets
    /\ heap' = [heap EXCEPT ![target] = Entity_add(@, component)]
    /\ last' = Mutation("add", target)
    /\ UNCHANGED <<wrapper, proxy>>

\* target.get(Position).x = x
MutateField(target, x) ==
    /\ target \in CopyTargets
    /\ Entity_has(heap[target], Class("Position"))
    /\ heap' = [heap EXCEPT ![target]._components["position"].x = x]
    /\ last' = Mutation("field", target)
    /\ UNCHANGED <<wrapper, proxy>>

\* target.get(Collision).parameters["radius"] = radius
MutateParameters(target, radius) ==
    /\ target \in CopyTargets
    /\ Entity_has(heap[target], Class("Collision"))
    /\ LET d == heap[target]._components["collision"].parameters
       IN heap' = [heap EXCEPT ![d].items["radius"] = radius]
    /\ last' = Mutation("parameters", target)
    /\ UNCHANGED <<wrapper, proxy>>

\* target.append(Entity("chest"))
MutateAppend(target, t) ==
    /\ target \in CopyTargets
    /\ Cardinality(DOMAIN heap) <= MaxCopyObjects
    /\ LET n == Cardinality(DOMAIN heap)
       IN heap' = (n :> Entity_init(t.id, t.components))
                    @@ [heap EXCEPT ![target] = Entity_append(@, n)]
    /\ last' = Mutation("append", target)
    /\ UNCHANGED <<wrapper, proxy>>

\* The values compared: the original, its copy, and a proxy of each.
Operands(h) ==
    IF last.op \in {"deepcopy", "copy", "mutate"}
    THEN {EntityRef(n) : n \in {last.orig, last.copy}}
           \cup {EntityProxy_init(n, h[n], <<>>) : n \in {last.orig, last.copy}}
    ELSE {}

\* a == b, b == a, b == c, a == c, a == a and b == b
EntityEq(a, b, c) ==
    /\ Fresh
    /\ last' = [op |-> "eq", a |-> a, b |-> b, c |-> c,
                ab |-> PyEq(heap, a, b), ba |-> PyEq(heap, b, a),
                bc |-> PyEq(heap, b, c), ac |-> PyEq(heap, a, c),
                aa |-> PyEq(heap, a, a), bb |-> PyEq(heap, b, b)]
    /\ UNCHANGED <<heap, wrapper, proxy>>

\* Entities are made, copied, changed after the copy, and compared.
NextCopy ==
    \/ \E parent \in Entities(heap) : AppendBall(parent)
    \/ \E entity \in Entities(heap) : DeepCopy(entity)
    \/ \E entity \in Entities(heap) : ShallowCopy(entity)
    \/ \E target \in Entities(heap) : MutateAdd(target, Position(60, 20))
    \/ \E target \in Entities(heap) : MutateField(target, 7)
    \/ \E target \in Entities(heap) : MutateParameters(target, 99)
    \/ \E target \in Entities(heap), t \in EmptyTemplates : MutateAppend(target, t)
    \/ \E a \in Operands(heap), b \in Operands(heap), c \in Operands(heap) :
          EntityEq(a, b, c)

SpecCopy == Init /\ [][NextCopy]_vars

\* What an entity is worth: its id, its components by key with the fields
\* they compare, and the worth of its children in order.
RECURSIVE DeepValue(_, _)
DeepValue(h, e) ==
    [id |-> h[e]._id,
     components |-> [k \in DOMAIN h[e]._components |->
                        FieldValues(h, h[e]._components[k])],
     children |-> [i \in DOMAIN h[e]._entities |-> DeepValue(h, h[e]._entities[i])]]

\* An entity and the entities below it.
Subtree(h, e) == {e} \cup Descendants(h, e)

\* The call changed an entity of one side (the original or the copy) and the
\* worth of the other side is what it was before the call.
OtherSideUnchanged ==
    /\ last.target \in Subtree(last.pre, last.copy)
          => DeepValue(heap, last.orig) = DeepValue(last.pre, last.orig)
    /\ last.target \in Subtree(last.pre, last.orig)
          => DeepValue(heap, last.copy) = DeepValue(last.pre, last.copy)

\* C14: D = deepcopy(E) is equal to E, and D and E are independent: a call
\* that adds or replaces a component, assigns a field of a component or an
\* entry of a dict a field refers to, or appends a child, on an entity of
\* one of them, leaves the id, components and subtree of the other unchanged.
C14_DeepCopyIndependent ==
    /\ last.op = "deepcopy"
          => /\ last.copy \notin DOMAIN last.pre
             /\ PyEq(heap, EntityRef(last.copy), EntityRef(last.orig))
             /\ PyEq(heap, EntityRef(last.orig), EntityRef(last.copy))
             /\ DeepValue(heap, last.copy) = DeepValue(last.pre, last.orig)
    /\ (last.op = "mutate" /\ last.by = "deepcopy") => OtherSideUnchanged

\* C15: copy(E) is a new entity with the id of E, no components and no
\* children; E is left as it was; the copy is equal to E exactly when E has
\* no components and no children; and a later change of one leaves the
\* other unchanged.
C15_ShallowCopy ==
    /\ last.op = "copy"
          => LET E == last.pre[last.orig]
                 C == heap[last.copy]
             IN /\ last.copy \notin DOMAIN last.pre
                /\ C._id = E._id
                /\ DOMAIN C._components = {}
                /\ C._entities = <<>>
                /\ \A n \in DOMAIN last.pre : heap[n] = last.pre[n]
                /\ PyEq(heap, EntityRef(last.copy), EntityRef(last.orig))
                      <=> (DOMAIN E._components = {} /\ E._entities = <<>>)
                /\ PyEq(heap, EntityRef(last.orig), EntityRef(last.copy))
                      <=> (DOMAIN E._components = {} /\ E._entities = <<>>)
    /\ (last.op = "mutate" /\ last.by = "copy") => OtherSideUnchanged

\* An entity with components and a child is copied; and the original of a
\* copy is changed afterwards.
C15_Witness ==
    /\ last.op = "mutate" /\ last.by = "copy" /\ last.how = "parameters"
    /\ last.target \in Subtree(last.pre, last.orig)
    /\ heap[last.orig]._entities # <<>>
    /\ ~PyEq(heap, EntityRef(last.copy), EntityRef(last.orig))

\* C16: entity equality is deep structural equality (ids, component maps and
\* child sequences equal), and == is reflexive, symmetric and transitive
\* over entities and proxies of entities.
C16_EqualityDeepEquivalence ==
    last.op = "eq"
       => /\ last.aa /\ last.bb
          /\ last.ab = last.ba
          /\ (last.ab /\ last.bc) => last.ac
          /\ (last.a.type = "Entity" /\ last.b.type = "Entity")
                => (last.ab <=> DeepValue(heap, last.a.handle)
                                  = DeepValue(heap, last.b.handle))

----------------------------------------------------------------------------
(* Entities are deactivated and the tree is queried *)

\* Bound of the model: number of entities below the context entity in the
\* behaviours that deactivate entities.
MaxActiveEntities == 3

\* The argument lists of the queries made on a tree with inactive entities.
ActiveArgLists == {<<>>, <<HasId("chest")>>, <<HasComponent(<<Class("Position")>>)>>}

\* entity.is_active = False, as test_get_only_active does with the entity a
\* query returned.
Deactivate(entity) ==
    /\ heap[entity].is_active
    /\ heap' = [heap EXCEPT ![entity].is_active = FALSE]
    /\ last' = [op |-> "deactivate", entity |-> entity]
    /\ UNCHANGED <<wrapper, proxy>>

NextActive ==
    \/ \E parent \in DOMAIN heap, t \in Templates :
          AppendEntity(MaxActiveEntities, parent, t)
    \/ \E entity \in Descendants(heap, 0) : Deactivate(entity)
    \/ \E context \in Contexts, args \in ActiveArgLists : QueryGet(context, args)
    \/ \E context \in Contexts, args \in ActiveArgLists : QueryFilter(context, args)

SpecActive == Init /\ [][NextActive]_vars

\* The entity is inactive, or below an inactive entity that is below the
\* context.
Hidden(h, context, n) ==
    \E a \in Descendants(h, context) :
        ~h[a].is_active /\ n \in Subtree(h, a)

\* C17: Query.filter yields no entity whose is_active flag is false and no
\* descendant of such an entity.
C17_FilterOnlyActive ==
    last.op = "filter" =>
        \A n \in Range(EntitiesOf(last.ret)) : ~Hidden(heap, last.context, n)

\* C18: Query.get returns no entity whose is_active flag is false, and None
\* when every entity that meets the criteria has been deactivated.
C18_GetOnlyActive ==
    last.op = "get" =>
        /\ last.ret # None => heap[last.ret._entity].is_active
        /\ (\A m \in Matching(heap, last.context, last.args) : ~heap[m].is_active)
              => last.ret = None

----------------------------------------------------------------------------
(* Criteria are asked about the entities of a tree *)

\* Bound of the model: number of entities below the context entity in the
\* behaviours that ask criteria.
MaxCriteriaEntities == 1

\* The component instances a HasComponentValue is made with.
ValuePool == {Position(50, 20), Position(10, 10), Sprite("hero.png"), Sprite("other.png")}

\* The lists of instances of a HasComponentValue: none, one, two in any order.
ValueLists ==
    {<<>>} \cup {<<c>> : c \in ValuePool} \cup (ValuePool \X ValuePool)

\* A value that is not a component: an int or a str, with its class.
PyInt(n) == [type |-> "int", value |-> n]

PyStr(string) == [type |-> "str", value |-> string]

\* The strings of the model, in the order str.__lt__ gives them.
StrOrder == <<"hero.png", "logo.png">>

StrIndex(string) == CHOOSE i \in DOMAIN StrOrder : StrOrder[i] = string.value

\* The class of the value of each dataclass field of the components.
FieldTypes == [x |-> "int", y |-> "int", z |-> "int", texture |-> "str"]

\* getattr(component, name)
getattr(component, name) ==
    IF name \in DOMAIN component \ {"type"}
    THEN Returned([type |-> FieldTypes[name], value |-> component[name]])
    ELSE Raised("AttributeError")

\* value < expected_value: defined between two ints and between two strs;
\* the dataclasses of the components define no order.
PyLess(value, expected_value) ==
    IF value.type = "int" /\ expected_value.type = "int"
    THEN Returned(value.value < expected_value.value)
    ELSE IF value.type = "str" /\ expected_value.type = "str"
    THEN Returned(StrIndex(value) < StrIndex(expected_value))
    ELSE Raised("TypeError")

\* value <= expected_value with its operands exchanged.
PyLessEq_swapped(value, expected_value) ==
    IF value.type = "int" /\ expected_value.type = "int"
    THEN Returned(expected_value.value <= value.value)
    ELSE IF value.type = "str" /\ expected_value.type = "str"
    THEN Returned(StrIndex(expected_value) <= StrIndex(value))
    ELSE Raised("TypeError")

\* value <= expected_value
PyLessEq(value, expected_value) ==
    IF value.type = "int" /\ expected_value.type = "int"
    THEN Returned(value.value <= expected_value.value)
    ELSE IF value.type = "str" /\ expected_value.type = "str"
    THEN Returned(StrIndex(value) <= StrIndex(expected_value))
    ELSE Raised("TypeError")

\* SugarCriteria._OPERATOR_LIST
OPERATOR_LIST == <<"eq", "ne", "lt", "gt", "lte", "gte">>

\* A keyword is written as its pieces, the separator "__" being a piece of
\* its own: position__x__gte is <<"position", "__", "x", "__", "gte">>.
RECURSIVE str_split(_, _, _)
\* key.split("__"): the pieces between the separators.
str_split(key, current, done) ==
    IF key = <<>> THEN Append(done, current)
    ELSE IF Head(key) = "__" THEN str_split(Tail(key), "", Append(done, current))
    ELSE str_split(Tail(key), Head(key), done)

\* FilterCriteria(new_fn): the variables the closure new_fn refers to.
FilterCriteria(component_name, data_name, operator, expected_value) ==
    [type |-> "FilterCriteria", component_name |-> component_name,
     data_name |-> data_name, operator |-> operator,
     expected_value |-> expected_value]

\* SugarCriteria._make_filter, for a key of one, two or three pieces.
SugarCriteria_make_filter(key, expected_value) ==
    LET key_split == str_split(key, "", <<>>)
    IN CASE Len(key_split) = 3 ->
              FilterCriteria(key_split[1], key_split[2], key_split[3], expected_value)
         [] Len(key_split) = 2 ->
              IF key_split[2] \in Range(OPERATOR_LIST)
              THEN FilterCriteria(key_split[1], "", key_split[2], expected_value)
              ELSE FilterCriteria(key_split[1], key_split[2], "eq", expected_value)
         [] Len(key_split) = 1 ->
              FilterCriteria(key_split[1], "", "eq", expected_value)

\* new_fn answering True to "ne" when the entity lacks the component.
SugarCriteria_new_fn_ne_absent(closure, entity) ==
    Returned(closure.operator = "ne"
               /\ closure.component_name \notin DOMAIN entity._components)

\* new_fn of SugarCriteria._make_filter
SugarCriteria_new_fn(closure, entity) ==
    IF closure.component_name \in DOMAIN entity._components
    THEN LET component == entity._components[closure.component_name]
             value == IF closure.data_name # ""
                      THEN getattr(component, closure.data_name)
                      ELSE Returned(component)
             expected_value == closure.expected_value
         IN IF value.raised # "none" THEN value
            ELSE CASE closure.operator = "eq" ->
                        Returned(value.value.type = expected_value.type
                                   /\ value.value = expected_value)
                   [] closure.operator = "ne" ->
                        Returned(~(value.value.type = expected_value.type
                                     /\ value.value = expected_value))
                   [] closure.operator = "lt" -> PyLess(value.value, expected_value)
                   [] closure.operator = "gt" -> PyLess(expected_value, value.value)
                   [] closure.operator = "lte" -> PyLessEq(value.value, expected_value)
                   [] closure.operator = "gte" -> PyLessEq(expected_value, value.value)
                   [] OTHER -> Returned(FALSE)
    ELSE Returned(FALSE)

\* list(items) / tuple(items)
PyList(items) == [type |-> "list", items |-> items]

\* bool(value), of a str, a list or a class: what `if criteria := ...` tests.
PyTruthy(value) ==
    CASE value.type = "str" -> value.value # ""
      [] value.type = "list" -> value.items # <<>>
      [] OTHER -> TRUE

\* The criteria the loop over the positional arguments appends for one
\* argument: a criteria, a component class or a component instance.
SugarCriteria_init_arg(arg) ==
    (IF arg.type \in CriteriaClasses THEN <<arg>> ELSE <<>>)
      \o (IF arg.type = "ABCMeta" THEN <<HasComponent(<<arg>>)>> ELSE <<>>)
      \o (IF arg.type \in ComponentNames THEN <<HasComponentValue(<<arg>>)>> ELSE <<>>)

RECURSIVE SugarCriteria_init_args(_)
SugarCriteria_init_args(args) ==
    IF args = <<>> THEN <<>>
    ELSE SugarCriteria_init_arg(Head(args)) \o SugarCriteria_init_args(Tail(args))

\* The criteria made of the keyword "has": one HasComponent for a class, one
\* for each class of a list.
SugarCriteria_init_has(criteria) ==
    (IF criteria.type = "ABCMeta" THEN <<HasComponent(<<criteria>>)>> ELSE <<>>)
      \o (IF criteria.type = "list"
          THEN [i \in DOMAIN criteria.items |-> HasComponent(<<criteria.items[i]>>)]
          ELSE <<>>)

\* SugarCriteria.__init__(*args, **kwargs), kwargs being the keywords in the
\* order they are written: the positional arguments, then "id", "has" and
\* "has_not", popped when their value is true, then a filter for each of
\* the other keywords.
SugarCriteria_init(args, kwargs) ==
    LET Popped(key) == SelectSeq(kwargs, LAMBDA kw : kw.key = <<key>>
                                                       /\ PyTruthy(kw.value))
        ids == Popped("id")
        has == Popped("has")
        has_not == Popped("has_not")
        others == SelectSeq(kwargs,
                            LAMBDA kw : kw.key \notin {<<"id">>, <<"has">>, <<"has_not">>})
    IN [type |-> "SugarCriteria",
        _criteria_list |->
            SugarCriteria_init_args(args)
              \o [i \in DOMAIN ids |-> HasId(ids[i].value.value)]
              \o (IF has = <<>> THEN <<>> ELSE SugarCriteria_init_has(has[1].value))
              \o [i \in DOMAIN has_not |-> HasNotComponent(<<has_not[i].value>>)]
              \o [i \in DOMAIN others |->
                     SugarCriteria_make_filter(others[i].key, others[i].value)]]

\* criteria.meet_criteria(entity) for a criteria of a SugarCriteria: a
\* FilterCriteria calls its function, which may raise.
FilterCriteria_meet_criteria(criteria, entity) ==
    IF criteria.type = "FilterCriteria"
    THEN SugarCriteria_new_fn(criteria, entity)
    ELSE Returned(meet_criteria(criteria, entity))

RECURSIVE SugarCriteria_all(_, _)
\* all(criteria.meet_criteria(entity) for criteria in self._criteria_list):
\* stops at the first criteria that is not met or that raises.
SugarCriteria_all(criteria_list, entity) ==
    IF criteria_list = <<>> THEN Returned(TRUE)
    ELSE LET met == FilterCriteria_meet_criteria(Head(criteria_list), entity)
         IN IF met.raised # "none" THEN met
            ELSE IF ~met.value THEN Returned(FALSE)
            ELSE SugarCriteria_all(Tail(criteria_list), entity)

SugarCriteria_meet_criteria(self, entity) ==
    SugarCriteria_all(self._criteria_list, entity)

\* The values a keyword is compared with.
ExpectedPool ==
    {PyInt(50), PyInt(60), PyStr("hero.png"), PyStr("logo.png"),
     Position(50, 20), Position(10, 10)}

\* A keyword as it is meant: component[__field][__operator]=expected.
Keyword(component, field, operator, expected) ==
    [component |-> component, field |-> field, operator |-> operator,
     expected |-> expected]

\* The key of a keyword, as it is written.
KeyOf(kw) ==
    <<kw.component>>
      \o (IF kw.field # "" THEN <<"__", kw.field>> ELSE <<>>)
      \o (IF kw.operator # "" THEN <<"__", kw.operator>> ELSE <<>>)

\* The keywords a SugarCriteria is made with, alone.
KeywordPool ==
    {Keyword(component, field, operator, expected) :
        component \in {"position", "sprite"}, field \in {"", "x", "texture"},
        operator \in {""} \cup Range(OPERATOR_LIST), expected \in ExpectedPool}

\* The keywords a SugarCriteria is made with, two at a time.
PairPool ==
    {Keyword("position", "x", "gte", PyInt(50)),
     Keyword("position", "x", "eq", PyInt(60)),
     Keyword("position", "", "ne", Position(10, 10)),
     Keyword("position", "", "lt", PyInt(50)),
     Keyword("sprite", "texture", "", PyStr("hero.png")),
     Keyword("sprite", "", "ne", Position(10, 10))}

\* Keywords of three parts whose third part is no operator of the list, as
\* position__x__fake of test_has_multiple_values_criteria.
UnrecognizedPool ==
    {Keyword(component, field, "fake", expected) :
        component \in {"position", "sprite"}, field \in {"x", "texture"},
        expected \in ExpectedPool}

KeywordLists ==
    {<<>>} \cup {<<kw>> : kw \in KeywordPool \cup UnrecognizedPool}
           \cup {kws \in PairPool \X PairPool : KeyOf(kws[1]) # KeyOf(kws[2])}

\* SugarCriteria(id=id, **keywords).meet_criteria(entity), id being optional.
SugarMeet(entity, id, keywords) ==
    LET kwargs == (IF id = None THEN <<>>
                   ELSE <<[key |-> <<"id">>, value |-> id]>>)
                    \o [i \in DOMAIN keywords |->
                           [key |-> KeyOf(keywords[i]), value |-> keywords[i].expected]]
    IN /\ Fresh
       /\ last' = [op |-> "sugar", entity |-> entity, id |-> id,
                   keywords |-> keywords, kwargs |-> kwargs,
                   ret |-> SugarCriteria_meet_criteria(SugarCriteria_init(<<>>, kwargs),
                                                       heap[entity])]
       /\ UNCHANGED <<heap, wrapper, proxy>>

\* The positional arguments a SugarCriteria is made with: criteria, component
\* classes and component instances.
SugarArgPool ==
    {HasId("hero"), HasNotComponent(<<Class("Sprite")>>),
     Class("Position"), Class("Sprite"), Position(50, 20), Sprite("other.png")}

SugarArgLists ==
    {<<>>} \cup {<<a>> : a \in SugarArgPool}
           \cup {args \in SugarArgPool \X {Class("Sprite"), Position(50, 20)} :
                    args[1] # args[2]}

\* The values given to the keywords id, has and has_not (None: not given).
SugarIds == {None, PyStr("hero"), PyStr("")}

SugarHas ==
    {None, Class("Position"), PyList(<<Class("Position"), Class("Sprite")>>),
     PyList(<<>>)}

SugarHasNot == {None, Class("Sprite")}

\* The other keywords given along with them.
SugarKeywords == {<<>>, <<Keyword("position", "x", "gte", PyInt(50))>>}

\* SugarCriteria(*args, id=, has=, has_not=, **keywords).meet_criteria(entity)
SugarMeetArgs(entity, args, id, has, has_not, keywords) ==
    LET Given(key, value) == IF value = None THEN <<>>
                             ELSE <<[key |-> <<key>>, value |-> value]>>
        kwargs == [i \in DOMAIN keywords |->
                      [key |-> KeyOf(keywords[i]), value |-> keywords[i].expected]]
                    \o Given("has_not", has_not) \o Given("has", has)
                    \o Given("id", id)
    IN /\ Fresh
       /\ last' = [op |-> "sugar_args", entity |-> entity, args |-> args,
                   id |-> id, has |-> has, has_not |-> has_not,
                   keywords |-> keywords,
                   ret |-> SugarCriteria_meet_criteria(
                               SugarCriteria_init(args, kwargs), heap[entity])]
       /\ UNCHANGED <<heap, wrapper, proxy>>

\* HasComponentValue(*component_list).meet_criteria(entity)
HasValueMeet(entity, component_list) ==
    /\ Fresh
    /\ last' = [op |-> "has_value", entity |-> entity,
                component_list |-> component_list,
                ret |-> HasComponentValue_meet_criteria(
                            HasComponentValue(component_list), heap[entity])]
    /\ UNCHANGED <<heap, wrapper, proxy>>

NextCriteria ==
    \/ \E parent \in DOMAIN heap, t \in Templates :
          AppendEntity(MaxCriteriaEntities, parent, t)
    \/ \E entity \in DOMAIN heap, component_list \in ValueLists :
          HasValueMeet(entity, component_list)
    \/ \E entity \in DOMAIN heap, id \in {None, PyStr("hero")}, keywords \in KeywordLists :
          SugarMeet(entity, id, keywords)

SpecCriteria == Init /\ [][NextCriteria]_vars

\* Bound of the model: number of entities below the context entity in the
\* behaviours that make a SugarCriteria of all the kinds of arguments.
MaxSugarEntities == 1

NextSugar ==
    \/ \E t \in Templates : AppendEntity(MaxSugarEntities, 0, t)
    \/ \E entity \in DOMAIN heap, args \in SugarArgLists, id \in SugarIds,
          has \in SugarHas, has_not \in SugarHasNot, keywords \in SugarKeywords :
          SugarMeetArgs(entity, args, id, has, has_not, keywords)

SpecSugar == Init /\ [][NextSugar]_vars

----------------------------------------------------------------------------
(* Queries with criteria that may raise: FilterCriteria and SugarCriteria *)

\* Bound of the model: number of entities below the context entity in the
\* behaviours that query with every class of criteria.
MaxPureEntities == 2

\* FilterCriteria(lambda entity: entity.get(component).<data_name> >= bound):
\* a function that reads a field of a component of the entity.
FieldAtLeast(component, data_name, bound) ==
    [type |-> "FilterCriteria", _filter_fn |-> "lambda", component |-> component,
     data_name |-> data_name, bound |-> bound]

\* The lambda of FieldAtLeast: Entity.get raises KeyError when the entity
\* lacks the component.
FieldAtLeast_fn(closure, entity) ==
    LET component == Entity_get(entity, closure.component)
    IN IF component.raised # "none" THEN component
       ELSE PyLessEq(closure.bound,
                     getattr(component.value, closure.data_name).value)

\* criteria.meet_criteria(entity) for every class of criteria: the outcome,
\* a value returned or an exception raised.
Criteria_meet_criteria(criteria, entity) ==
    CASE criteria.type = "FilterCriteria" /\ "_filter_fn" \in DOMAIN criteria ->
            FieldAtLeast_fn(criteria, entity)
      [] criteria.type = "SugarCriteria" -> SugarCriteria_meet_criteria(criteria, entity)
      [] OTHER -> FilterCriteria_meet_criteria(criteria, entity)

RECURSIVE Query_check_eager(_, _)
\* Query.check evaluating every criteria before it answers.
Query_check_eager(entity, criteria_list) ==
    IF criteria_list = <<>> THEN Returned(TRUE)
    ELSE LET met == Criteria_meet_criteria(Head(criteria_list), entity)
             others == Query_check_eager(entity, Tail(criteria_list))
         IN IF met.raised # "none" THEN met
            ELSE IF others.raised # "none" THEN others
            ELSE Returned(met.value /\ others.value)

RECURSIVE Query_check_raising(_, _)
\* Query.check, all(criteria.meet_criteria(entity) for criteria in
\* criteria_list): the generator is consumed until a criteria is not met or
\* raises.
Query_check_raising(entity, criteria_list) ==
    IF criteria_list = <<>> THEN Returned(TRUE)
    ELSE LET met == Criteria_meet_criteria(Head(criteria_list), entity)
         IN IF met.raised # "none" THEN met
            ELSE IF ~met.value THEN Returned(FALSE)
            ELSE Query_check_raising(entity, Tail(criteria_list))

RECURSIVE Query_get_raising(_, _, _, _)
\* Query.get from the i-th child of the context on, a check that raises
\* ending the call.
Query_get_raising(h, context, args, i) ==
    LET checked == Query_check_arguments(args)
    IN IF i > Len(h[context]._entities) THEN Returned(None)
       ELSE LET entity == h[context]._entities[i]
                met == Query_check_raising(h[entity], checked.criteria_list)
            IN IF Entity_len(h[entity]) # 0
               THEN Query_get_raising(h, entity, checked.criteria_list, 1)
               ELSE IF met.raised # "none" THEN met
               ELSE IF met.value
               THEN Returned(EntityProxy_init(entity, h[entity],
                                              checked.proxy_components))
               ELSE Query_get_raising(h, context, args, i + 1)

RECURSIVE Query_filter_raising(_, _, _, _, _)
\* list(Query.filter) from the i-th child of the context on, after the
\* proxies yielded so far: a check that raises ends the generator and the
\* call.
Query_filter_raising(h, context, args, i, yielded) ==
    LET checked == Query_check_arguments(args)
    IN IF i > Len(h[context]._entities) THEN Returned(yielded)
       ELSE LET entity == h[context]._entities[i]
                met == Query_check_raising(h[entity], checked.criteria_list)
                with == IF met.value
                        THEN Append(yielded,
                                    EntityProxy_init(entity, h[entity],
                                                     checked.proxy_components))
                        ELSE yielded
                below == IF Entity_len(h[entity]) # 0
                         THEN Query_filter_raising(h, entity, checked.criteria_list,
                                                   1, with)
                         ELSE Returned(with)
            IN IF met.raised # "none" THEN met
               ELSE IF below.raised # "none" THEN below
               ELSE Query_filter_raising(h, context, args, i + 1, below.value)

\* SugarCriteria(position__x__gte=expected)
SugarAtLeast(expected) ==
    SugarCriteria_init(<<>>, <<[key |-> <<"position", "__", "x", "__", "gte">>,
                               value |-> PyInt(expected)]>>)

\* The criteria of the queries: one of each class.
PureCriteriaPool ==
    {HasId("hero"), HasComponent(<<Class("Position")>>),
     HasNotComponent(<<Class("Sprite")>>), HasComponentValue(<<Position(50, 20)>>),
     SugarAtLeast(20), SugarAtLeast(40),
     FieldAtLeast(Class("Position"), "x", PyInt(20))}

PureCriteriaLists ==
    {<<>>} \cup {<<a>> : a \in PureCriteriaPool}
           \cup {args \in PureCriteriaPool \X PureCriteriaPool : args[1] # args[2]}

\* The argument lists of get and filter: criteria, or a class and a criteria.
PureArgLists ==
    PureCriteriaLists \cup ({Class("Position")} \X PureCriteriaPool)

\* Query(context).get(*args)
PureGet(context, args) ==
    /\ Fresh
    /\ last' = [op |-> "get", context |-> context, args |-> args,
                out |-> Query_get_raising(heap, context, args, 1)]
    /\ UNCHANGED <<heap, wrapper, proxy>>

\* PureFilter assigning is_active of the entities it yields.
PureFilter_touching(context, args) ==
    LET out == Query_filter_raising(heap, context, args, 1, <<>>)
        yielded == IF out.raised = "none" THEN Range(EntitiesOf(out.value)) ELSE {}
    IN /\ Fresh
       /\ last' = [op |-> "filter", context |-> context, args |-> args, out |-> out]
       /\ heap' = [n \in DOMAIN heap |->
                      IF n \in yielded THEN [heap[n] EXCEPT !.is_active = FALSE]
                      ELSE heap[n]]
       /\ UNCHANGED <<wrapper, proxy>>

\* list(Query(context).filter(*args))
PureFilter(context, args) ==
    /\ Fresh
    /\ last' = [op |-> "filter", context |-> context, args |-> args,
                out |-> Query_filter_raising(heap, context, args, 1, <<>>)]
    /\ UNCHANGED <<heap, wrapper, proxy>>

\* Query.check(entity, *criteria_list)
PureCheck(entity, criteria_list) ==
    /\ Fresh
    /\ last' = [op |-> "check", entity |-> entity, args |-> criteria_list,
                out |-> Query_check_raising(heap[entity], criteria_list)]
    /\ UNCHANGED <<heap, wrapper, proxy>>

NextPure ==
    \/ \E parent \in DOMAIN heap, t \in Templates :
          AppendEntity(MaxPureEntities, parent, t)
    \/ \E context \in Contexts, args \in PureArgLists : PureGet(context, args)
    \/ \E context \in Contexts, args \in PureArgLists : PureFilter(context, args)
    \/ \E entity \in DOMAIN heap, criteria_list \in PureCriteriaLists :
          PureCheck(entity, criteria_list)

SpecPure == Init /\ [][NextPure]_vars

\* C19: HasComponentValue(c1..cn) is met by an entity if and only if, for
\* every listed instance ci, the entity has no component of the class of ci
\* or the component it holds of that class equals ci, wherever ci stands in
\* the list.
C19_HasValueEveryInstance ==
    last.op = "has_value" =>
        (last.ret <=>
            \A i \in DOMAIN last.component_list :
                LET ci == last.component_list[i]
                    held == heap[last.entity]._components
                IN Lower[ci.type] \notin DOMAIN held \/ held[Lower[ci.type]] = ci)

\* The component the keyword names, held by the entity.
Named(h, n, kw) == h[n]._components[kw.component]

\* The keyword can be answered: the entity lacks the component, or the field
\* exists and the relation is defined between the two values (equality
\* always, order between two ints or two strs).
Answerable(h, n, kw) ==
    \/ kw.component \notin DOMAIN h[n]._components
    \/ /\ kw.field # "" => kw.field \in DOMAIN Named(h, n, kw)
       /\ \/ kw.operator \in {"", "eq", "ne"}
          \/ LET class == IF kw.field = "" THEN Named(h, n, kw).type
                           ELSE FieldTypes[kw.field]
             IN class = kw.expected.type /\ class \in {"int", "str"}

\* a is before b, for two ints or two strs.
Before(a, b) ==
    IF a.type = "int" THEN a.value < b.value ELSE StrIndex(a) < StrIndex(b)

\* The entity has the named component and its field, or the component
\* itself when no field is named, stands in the relation to the expected
\* value.
Related(h, n, kw) ==
    /\ kw.component \in DOMAIN h[n]._components
    /\ LET v == IF kw.field = "" THEN Named(h, n, kw)
                ELSE [type |-> FieldTypes[kw.field],
                      value |-> Named(h, n, kw)[kw.field]]
           w == kw.expected
           same == v.type = w.type /\ v = w
       IN CASE kw.operator \in {"", "eq"} -> same
            [] kw.operator = "ne" -> ~same
            [] kw.operator = "lt" -> Before(v, w)
            [] kw.operator = "gt" -> Before(w, v)
            [] kw.operator = "lte" -> ~Before(w, v)
            [] kw.operator = "gte" -> ~Before(v, w)

\* The call returned, and returned the value.
Returns(ret, value) == ret.raised = "none" /\ ret.value = value

\* C20: a SugarCriteria keyword component[__field][__op]=expected, op one of
\* eq, ne, lt, gt, lte, gte (eq when none is written), is met by an entity
\* if and only if the entity has the named component and the field, or the
\* whole component when no field is written, stands in the relation to
\* expected; an entity that lacks the component meets no keyword, ne
\* included; several keywords are met when each is.
C20_SugarKeywords ==
    (last.op = "sugar" /\ \A i \in DOMAIN last.keywords :
                             last.keywords[i].operator # "fake") =>
        /\ (\A i \in DOMAIN last.keywords :
                Answerable(heap, last.entity, last.keywords[i]))
              => Returns(last.ret,
                     /\ last.id # None => heap[last.entity]._id = last.id.value
                     /\ \A i \in DOMAIN last.keywords :
                           Related(heap, last.entity, last.keywords[i]))
        /\ \A i \in DOMAIN last.keywords :
              /\ last.keywords[i].component
                     \notin DOMAIN heap[last.entity]._components
              /\ \A j \in 1..(i - 1) : Answerable(heap, last.entity, last.keywords[j])
              => Returns(last.ret, FALSE)

\* Two keywords are met together by an entity, one comparing a field by
\* order, the other the whole component through a two-part key whose second
\* part is an operator.
C20_Witness ==
    /\ last.op = "sugar" /\ Len(last.keywords) = 2
    /\ Returns(last.ret, TRUE)
    /\ \E i, j \in DOMAIN last.keywords :
          /\ last.keywords[i].field = "" /\ last.keywords[i].operator = "ne"
          /\ last.keywords[j].field = "x" /\ last.keywords[j].operator = "gte"

\* C21: a SugarCriteria keyword whose operator part is not one of eq, ne, lt,
\* gt, lte, gte never raises and is met exactly as with eq: if and only if
\* the entity has the component and the field equals the expected value.
C21_UnrecognizedOperatorIsEq ==
    (last.op = "sugar" /\ last.id = None /\ Len(last.keywords) = 1
       /\ last.keywords[1].operator = "fake") =>
        LET kw == last.keywords[1]
            held == heap[last.entity]._components
        IN Returns(last.ret,
               /\ kw.component \in DOMAIN held
               /\ kw.field \in DOMAIN held[kw.component]
               /\ FieldTypes[kw.field] = kw.expected.type
               /\ held[kw.component][kw.field] = kw.expected.value)

\* What a positional argument of a SugarCriteria asks of an entity: the
\* criteria itself, HasComponent of a class, HasComponentValue of an instance.
ArgMet(arg, entity) ==
    CASE arg.type \in CriteriaClasses -> meet_criteria(arg, entity)
      [] arg.type = "ABCMeta" -> HasComponent_meet_criteria(HasComponent(<<arg>>), entity)
      [] OTHER -> HasComponentValue_meet_criteria(HasComponentValue(<<arg>>), entity)

\* C22: SugarCriteria(*args, **kwargs) is met by an entity exactly when every
\* positional criteria is, the entity has every positional class, meets
\* HasComponentValue of every positional instance, HasId(X) for id=X whatever
\* the string X, has the class or every class given as has=, has not the
\* class given as has_not=, and meets every other keyword.
C22_SugarConjunction ==
    last.op = "sugar_args" =>
        LET entity == heap[last.entity]
        IN Returns(last.ret,
               /\ \A i \in DOMAIN last.args : ArgMet(last.args[i], entity)
               /\ last.id # None => HasId_meet_criteria(HasId(last.id.value), entity)
               /\ (last.has # None /\ last.has.type = "ABCMeta")
                     => Entity_has(entity, last.has)
               /\ (last.has # None /\ last.has.type = "list")
                     => \A i \in DOMAIN last.has.items :
                           Entity_has(entity, last.has.items[i])
               /\ last.has_not # None => ~Entity_has(entity, last.has_not)
               /\ \A i \in DOMAIN last.keywords :
                     Related(heap, last.entity, last.keywords[i]))

\* The tree of the scenario: context -> [logo(Position(10, 10)),
\* hero(Position(50, 20), Sprite("hero.png"))].
BasicScene ==
    /\ DOMAIN heap = 0..2
    /\ heap[0]._entities = <<1, 2>>
    /\ heap[1] = Entity_init("logo", <<Position(10, 10)>>)
    /\ heap[2] = Entity_init("hero", <<Position(50, 20), Sprite("hero.png")>>)

\* The ids of the entities a filter yielded, in order.
YieldedIds(out) == [i \in DOMAIN out.value |-> heap[out.value[i]._entity]._id]

\* C23 as stated: in the tree of the scenario SugarCriteria(position__x__gte=20)
\* matches both logo and hero, and SugarCriteria(position__x__gte=40) matches
\* only hero.
C23_ScenarioBothMatch ==
    (BasicScene /\ last.op = "filter" /\ last.context = 0) =>
        /\ last.args = <<SugarAtLeast(20)>>
              => (last.out.raised = "none" /\ YieldedIds(last.out) = <<"logo", "hero">>)
        /\ last.args = <<SugarAtLeast(40)>>
              => (last.out.raised = "none" /\ YieldedIds(last.out) = <<"hero">>)

\* C23 amended: in the tree of the scenario SugarCriteria(position__x__gte=20)
\* matches only hero, the x of logo being 10, and so does
\* SugarCriteria(position__x__gte=40).
C23_ScenarioOnlyHero ==
    (BasicScene /\ last.op = "filter" /\ last.context = 0
       /\ last.args \in {<<SugarAtLeast(20)>>, <<SugarAtLeast(40)>>}) =>
        (last.out.raised = "none" /\ YieldedIds(last.out) = <<"hero">>)

\* The scenario is filtered with position__x__gte=20.
C23_Witness ==
    /\ BasicScene /\ last.op = "filter" /\ last.context = 0
    /\ last.args = <<SugarAtLeast(20)>>
    /\ Len(last.out.value) = 1

\* C24: Query.get, Query.filter and Query.check, with criteria of every
\* class, leave every object as it was: the id, components, field values,
\* child list and is_active flag of every entity, and nothing else is kept.
C24_QueriesArePure ==
    [][last'.op \in {"get", "filter", "check"}
          => (heap' = heap /\ wrapper' = wrapper /\ proxy' = proxy)]_vars

\* A filter with a SugarCriteria has yielded entities of a tree of two.
C24_Witness ==
    /\ last.op = "filter" /\ Cardinality(DOMAIN heap) = 3
    /\ \E i \in DOMAIN last.args : last.args[i].type = "SugarCriteria"
    /\ last.out.raised = "none" /\ Len(last.out.value) >= 1

\* The two outcomes are the same: the same exception, or the same value.
SameOutcome(a, b) ==
    a.raised = b.raised /\ (a.raised = "none" => a.value = b.value)

\* C29: Query.check evaluates the criteria from left to right and stops at
\* the first that is not met: with [C1, C2], an entity that fails C1 is
\* answered False without C2 being evaluated, so a criteria that raises on
\* an entity lacking a component does not raise behind a HasComponent.
C29_CheckLeftToRight ==
    (last.op = "check" /\ Len(last.args) = 2) =>
        LET entity == heap[last.entity]
            first == Criteria_meet_criteria(last.args[1], entity)
            second == Criteria_meet_criteria(last.args[2], entity)
        IN /\ first.raised # "none" => SameOutcome(last.out, first)
           /\ Returns(first, FALSE) => Returns(last.out, FALSE)
           /\ Returns(first, TRUE) => SameOutcome(last.out, second)
           /\ (last.args[1] = HasComponent(<<Class("Position")>>)
                 /\ last.args[2] = FieldAtLeast(Class("Position"), "x", PyInt(20)))
                => last.out.raised = "none"

\* An entity without Position is checked against HasComponent(Position)
\* followed by a function that raises on it.
C29_Witness ==
    /\ last.op = "check"
    /\ last.args = <<HasComponent(<<Class("Position")>>),
                     FieldAtLeast(Class("Position"), "x", PyInt(20))>>
    /\ Criteria_meet_criteria(last.args[2], heap[last.entity]).raised = "KeyError"
    /\ Returns(last.out, FALSE)

----------------------------------------------------------------------------
(* Proxies made without a list of classes: src/ecs/utils.py 211-255        *)

MaxWhitelistEntities == 1

\* The components an entity is given after a proxy was made of it.
WhitelistAddPool == { Position(60, 20), Sprite("logo.png") }

\* type(c) for c in entity._components.values()
HeldTypes(self) == {TypeOf(self._components[k]) : k \in DOMAIN self._components}

\* Entities are built and given components, before and after
\* EntityProxy(entity) is made of one of them, and the proxy is used.
NextWhitelist ==
    \/ \E t \in Templates : AppendEntity(MaxWhitelistEntities, 0, t)
    \/ \E entity \in DOMAIN heap, component \in WhitelistAddPool :
          EntityAdd(entity, component)
    \/ \E entity \in DOMAIN heap : NewProxy(entity, <<>>)
    \/ \E name \in ComponentNames : ProxyHas(Class(name))
    \/ \E name \in ComponentNames : ProxyGet(Class(name))
    \/ \E components \in UpdateLists : ProxyUpdate(components)

SpecWhitelist == Init /\ [][NextWhitelist]_vars

\* C28: EntityProxy(entity) is scoped to exactly the classes of the
\* components the entity holds when it is made, and the scope stays as it
\* is whatever the entity is given later: has answers False, get raises
\* ValueError and update changes nothing for a class outside it, and a
\* proxy made of an entity without components lets no class through.
C28_DefaultWhitelistFixed ==
    [][/\ last'.op = "proxy" =>
             proxy'._components = HeldTypes(heap[proxy'._entity])
       /\ last'.op # "proxy" => proxy' = proxy
       /\ (last'.op = "proxy_has" /\ last'.arg \notin proxy._components) =>
             /\ last'.out.raised = "none"
             /\ last'.out.value = FALSE
       /\ (last'.op = "proxy_get" /\ last'.arg \notin proxy._components) =>
             last'.out.raised = "ValueError"
       /\ (last'.op = "proxy_update"
             /\ \E i \in DOMAIN last'.arg :
                   TypeOf(last'.arg[i]) \notin proxy._components) =>
             /\ heap' = heap
             /\ last'.out.warned]_vars

\* A proxy made of an entity without components, which was given a Position
\* afterwards, rejects the update of that Position.
C28_Witness ==
    /\ last.op = "proxy_update"
    /\ proxy._components = {}
    /\ "position" \in DOMAIN heap[proxy._entity]._components
    /\ last.arg = <<Position(60, 20)>>
    /\ heap = last.pre
    /\ last.out.warned

----------------------------------------------------------------------------
(* is_active in copies and comparisons: src/ecs/utils.py 90, 169-202        *)

MaxFlagEntities == 2

\* The entities built: one with a component and one without.
FlagTemplates == {t \in Templates : t.id \in {"logo", "chest"}}

\* copy.copy(entity), of an entity whatever its is_active; copies are made
\* while the heap holds no more than the entities of a full tree.
FlagShallowCopy(entity) ==
    LET made == Entity_copy(heap, entity)
    IN /\ Cardinality(DOMAIN heap) <= MaxFlagEntities + 1
       /\ heap' = made.heap
       /\ last' = [op |-> "copy", pre |-> heap, orig |-> entity, copy |-> made.ret]
       /\ UNCHANGED <<wrapper, proxy>>

\* copy.deepcopy(entity), of an entity whatever its is_active and that of
\* the entities below it
FlagDeepCopy(entity) ==
    LET made == Entity_deepcopy(heap, entity)
    IN /\ Cardinality(DOMAIN heap) <= MaxFlagEntities + 1
       /\ heap' = made.heap
       /\ last' = [op |-> "deepcopy", pre |-> heap, orig |-> entity,
                   copy |-> made.ret]
       /\ UNCHANGED <<wrapper, proxy>>

\* a == b, of two entities
FlagEq(a, b) ==
    /\ Fresh
    /\ last' = [op |-> "entity_eq", a |-> a, b |-> b,
                out |-> Entity_eq(heap, a, EntityRef(b))]
    /\ UNCHANGED <<heap, wrapper, proxy>>

\* Entities are built, switched off, copied and compared.
NextFlag ==
    \/ \E parent \in DOMAIN heap, t \in FlagTemplates :
          AppendEntity(MaxFlagEntities, parent, t)
    \/ \E entity \in DOMAIN heap \ {0} : Deactivate(entity)
    \/ \E entity \in DOMAIN heap : FlagShallowCopy(entity)
    \/ \E entity \in DOMAIN heap : FlagDeepCopy(entity)
    \/ \E a \in DOMAIN heap : \E b \in DOMAIN heap \ {a} : FlagEq(a, b)

SpecFlag == Init /\ [][NextFlag]_vars

\* C30: is_active takes no part in copying or in equality: copy.copy(E)
\* and copy.deepcopy(E) are active, as is every entity below a deep copy,
\* whatever is_active is in the entity copied and below it, and two
\* entities are equal exactly when their ids, components and children are,
\* so two entities that differ only in is_active are equal.
C30_FlagNotCopiedNorCompared ==
    /\ last.op = "copy" => heap[last.copy].is_active
    /\ last.op = "deepcopy" =>
          \A n \in Subtree(heap, last.copy) : heap[n].is_active
    /\ last.op = "entity_eq" =>
          last.out = (DeepValue(heap, last.a) = DeepValue(heap, last.b))

\* An entity that is switched off, with a child that is switched off, is
\* equal to another entity whose entities are all active.
C30_Witness ==
    /\ last.op = "entity_eq"
    /\ last.a # last.b
    /\ ~heap[last.a].is_active
    /\ \E n \in Descendants(heap, last.a) : ~heap[n].is_active
    /\ \A n \in Subtree(heap, last.b) : heap[n].is_active
    /\ last.out

----------------------------------------------------------------------------
(* Entities appended to entities that exist: src/ecs/utils.py 81-122, and  *)
(* the traversals over what results: 459-496, src/ecs.py 334-364           *)

MaxGraphEntities == 2

MaxGraphEdges == 3

\* The entities constructed.
GraphTemplates == {t \in Templates : t.id \in {"logo", "chest"}}

RECURSIVE EdgesUpTo(_, _)
\* The number of entries of the child lists of the objects 0..n.
EdgesUpTo(h, n) ==
    IF n < 0 THEN 0 ELSE Len(h[n]._entities) + EdgesUpTo(h, n - 1)

\* The number of entries of the child lists.
Edges(h) == EdgesUpTo(h, Cardinality(DOMAIN h) - 1)

\* The depth of nested calls at which the interpreter raises RecursionError
\* (sys.getrecursionlimit()), scaled to the entities of the model: deeper
\* than any chain of distinct entities.
RecursionLimit == MaxGraphEntities + 2

\* What a traversal did: the entities its loops took, in order, what it
\* yielded or handed over, and the exception that ended it.
Traversal(visited, yielded, raised) ==
    [visited |-> visited, yielded |-> yielded, raised |-> raised]

RECURSIVE Query_filter_deep(_, _, _, _)
RECURSIVE Query_filter_deep_loop(_, _, _, _, _)
\* for entity in self._context._entities, from the i-th on, consumed until
\* the generator is exhausted or raises.
Query_filter_deep_loop(h, context, criteria_list, depth, i) ==
    IF i > Len(h[context]._entities) THEN Traversal(<<>>, <<>>, "none")
    ELSE LET entity == h[context]._entities[i]
             own == IF Query_check(h[entity], criteria_list)
                    THEN <<entity>> ELSE <<>>
             below == IF Entity_len(h[entity]) # 0
                      THEN Query_filter_deep(h, entity, criteria_list, depth + 1)
                      ELSE Traversal(<<>>, <<>>, "none")
             rest == IF below.raised = "none"
                     THEN Query_filter_deep_loop(h, context, criteria_list, depth, i + 1)
                     ELSE Traversal(<<>>, <<>>, below.raised)
         IN Traversal(<<entity>> \o below.visited \o rest.visited,
                      own \o below.yielded \o rest.yielded,
                      rest.raised)

\* list(Query(context).filter(*criteria_list)), depth calls deep
Query_filter_deep(h, context, criteria_list, depth) ==
    IF depth > RecursionLimit THEN Traversal(<<>>, <<>>, "RecursionError")
    ELSE Query_filter_deep_loop(h, context, criteria_list, depth, 1)

RECURSIVE Query_get_deep(_, _, _, _)
RECURSIVE Query_get_deep_loop(_, _, _, _, _)
\* The for loop of Query.get from the i-th child on; what it returns is the
\* one entity yielded, none for None.
Query_get_deep_loop(h, context, criteria_list, depth, i) ==
    IF i > Len(h[context]._entities) THEN Traversal(<<>>, <<>>, "none")
    ELSE LET entity == h[context]._entities[i]
             next == IF Entity_len(h[entity]) # 0
                     THEN Query_get_deep(h, entity, criteria_list, depth + 1)
                     ELSE IF Query_check(h[entity], criteria_list)
                     THEN Traversal(<<>>, <<entity>>, "none")
                     ELSE Query_get_deep_loop(h, context, criteria_list, depth, i + 1)
         IN Traversal(<<entity>> \o next.visited, next.yielded, next.raised)

\* Query(context).get(*criteria_list), depth calls deep
Query_get_deep(h, context, criteria_list, depth) ==
    IF depth > RecursionLimit THEN Traversal(<<>>, <<>>, "RecursionError")
    ELSE Query_get_deep_loop(h, context, criteria_list, depth, 1)

\* new_fn of Query.call with a handler that returns at once: the entities
\* the generator yields are handed over until it is exhausted or raises.
ecs_new_fn_deep(h, context, criteria_list) ==
    Query_filter_deep(h, context, criteria_list, 1)

\* Entity(id, *entities, *components), not appended to anything
GraphNew(t, entities) ==
    /\ Cardinality(DOMAIN heap) <= MaxGraphEntities
    /\ Edges(heap) + Len(entities) <= MaxGraphEdges
    /\ LET n == Cardinality(DOMAIN heap)
       IN heap' = (n :> Entity_init(t.id, entities \o t.components)) @@ heap
    /\ last' = [op |-> "new"]
    /\ UNCHANGED <<wrapper, proxy>>

\* parent.append(entity), of two entities that exist
GraphAppend(parent, entity) ==
    /\ Edges(heap) + 1 <= MaxGraphEdges
    /\ heap' = [heap EXCEPT ![parent] = Entity_append(@, entity)]
    /\ last' = [op |-> "append", parent |-> parent]
    /\ UNCHANGED <<wrapper, proxy>>

\* parent.extend(first, second), of entities that exist
GraphExtend(parent, entities) ==
    /\ Edges(heap) + Len(entities) <= MaxGraphEdges
    /\ heap' = [heap EXCEPT ![parent] = Entity_extend(@, entities)]
    /\ last' = [op |-> "extend", parent |-> parent]
    /\ UNCHANGED <<wrapper, proxy>>

\* list(Query(context).filter(*criteria_list))
GraphFilter(context, criteria_list) ==
    /\ Fresh
    /\ last' = [op |-> "graph_filter", context |-> context,
                args |-> criteria_list,
                out |-> Query_filter_deep(heap, context, criteria_list, 1)]
    /\ UNCHANGED <<heap, wrapper, proxy>>

\* Query(context).get(*criteria_list)
GraphGet(context, criteria_list) ==
    /\ Fresh
    /\ last' = [op |-> "graph_get", context |-> context,
                args |-> criteria_list,
                out |-> Query_get_deep(heap, context, criteria_list, 1)]
    /\ UNCHANGED <<heap, wrapper, proxy>>

\* Query(context).call(fn, *criteria_list)()
GraphCall(context, criteria_list) ==
    /\ Fresh
    /\ last' = [op |-> "graph_call", context |-> context,
                args |-> criteria_list,
                out |-> ecs_new_fn_deep(heap, context, criteria_list)]
    /\ UNCHANGED <<heap, wrapper, proxy>>

\* The criteria the traversals are made with.
GraphCriteriaLists == {<<>>} \cup {<<a>> : a \in CriteriaPool}

\* Entities are constructed, alone or around an entity that exists, and
\* appended to one another; the result is traversed.
NextGraph ==
    \/ \E t \in GraphTemplates : GraphNew(t, <<>>)
    \/ \E t \in GraphTemplates, entity \in DOMAIN heap :
          GraphNew(t, <<EntityRef(entity)>>)
    \/ \E parent \in DOMAIN heap, entity \in DOMAIN heap :
          GraphAppend(parent, entity)
    \/ \E parent \in DOMAIN heap, first \in DOMAIN heap, second \in DOMAIN heap :
          GraphExtend(parent, <<first, second>>)
    \/ \E context \in DOMAIN heap, criteria_list \in GraphCriteriaLists :
          GraphFilter(context, criteria_list)
    \/ \E context \in DOMAIN heap, criteria_list \in GraphCriteriaLists :
          GraphGet(context, criteria_list)
    \/ \E context \in DOMAIN heap, criteria_list \in GraphCriteriaLists :
          GraphCall(context, criteria_list)

SpecGraph == Init /\ [][NextGraph]_vars

\* The places an entity is owned at: the entries of child lists that are it.
OwnedAt(h, n) ==
    {<<p, i>> \in (DOMAIN h) \X (1..MaxGraphEdges) :
        i \in DOMAIN h[p]._entities /\ h[p]._entities[i] = n}

\* C26: whatever entities are constructed, appended and extended, the
\* child lists form a tree: an entity is in at most one child list, at most
\* once, and no entity is below itself.
C26_OwnershipIsTree ==
    \A n \in DOMAIN heap :
        /\ Cardinality(OwnedAt(heap, n)) <= 1
        /\ n \notin Descendants(heap, n)

\* The sequence holds no entity twice.
NoRepeat(seq) == \A i \in DOMAIN seq, j \in DOMAIN seq : seq[i] = seq[j] => i = j

\* C27: over whatever entities are constructed, appended and extended,
\* a fully consumed Query.filter, Query.get and the invocation of a call
\* wrapper whose handler returns all come to an end without raising, and
\* their loops take each entity below the context at most once.
C27_TraversalsTerminate ==
    last.op \in {"graph_filter", "graph_get", "graph_call"} =>
        /\ last.out.raised = "none"
        /\ NoRepeat(last.out.visited)

----------------------------------------------------------------------------
(* Handlers that change the tree during the dispatch: src/ecs.py 334-364   *)

MaxDispatchEntities == 2

\* The argument forms the wrappers are bound with.
DispatchForms ==
    { [args |-> <<>>, kwargs |-> <<>>],
      [args |-> <<HasComponent(<<Class("Position")>>)>>, kwargs |-> <<>>],
      [args |-> <<HasComponentValue(<<Position(50, 20)>>)>>, kwargs |-> <<>>] }

\* The wrappers are invoked without extra arguments.
NoExtra == [args |-> <<>>, kwargs |-> <<>>]

\* wrapper() and wrapper(Query(context)), while each entity built has at
\* most been given one entity by the handlers.
InvokeMutating ==
    /\ wrapper # NoWrapper
    /\ LET st == IF wrapper.of = "call"
                 THEN ecs_new_fn(heap, wrapper, NoExtra)
                 ELSE ecs_decorated_new_fn(heap, wrapper, 0, NoExtra)
       IN /\ Cardinality(DOMAIN st.heap) <= 2 * MaxDispatchEntities + 1
          /\ heap' = st.heap
          /\ last' = [op |-> "invoke", pre |-> heap, calls |-> st.calls,
                      raised |-> st.raised, context |-> 0, extra |-> NoExtra]
    /\ UNCHANGED <<wrapper, proxy>>

\* A tree is built, a handler that changes it is bound to it, and the
\* wrapper is invoked.
NextDispatch ==
    \/ \E parent \in DOMAIN heap, t \in Templates :
          AppendEntity(MaxDispatchEntities, parent, t)
    \/ \E fn \in MutatingHandlers, form \in DispatchForms : QueryCall(0, fn, form)
    \/ \E fn \in MutatingHandlers, form \in DispatchForms : QueryDecorate(fn, form)
    \/ InvokeMutating

SpecDispatch == Init /\ [][NextDispatch]_vars

\* The criteria of the wrapper, as Query.call makes them of its arguments.
WrapperCriteria ==
    ecs_Query_call(last.context, wrapper.fn, wrapper.form.args,
                   wrapper.form.kwargs).criteria_list

\* C25: the entities a wrapper hands to its handler in one invocation are,
\* in order, those filter yields on the tree as it is when the wrapper is
\* invoked, whatever the handler does to the tree during a dispatch that
\* comes to its end.
C25_DispatchOverSnapshot ==
    (last.op = "invoke" /\ last.raised = "none") =>
        LET snapshot == Query_filter(last.pre, last.context, WrapperCriteria)
        IN [i \in DOMAIN last.calls |-> last.calls[i].first._entity]
             = [i \in DOMAIN snapshot |-> snapshot[i]._entity]

====
